---- MODULE Spec2Model ----
(***************************************************************************)
(* issue-sync: one-way reconciliation of GitHub issues into JIRA.          *)
(*                                                                         *)
(* The model covers the reconciliation engine (CompareIssues, UpdateIssue, *)
(* CreateIssue, DidIssueChange), the two JIRAClient implementations        *)
(* (realJIRAClient, dryrunJIRAClient) and Sync.  The JIRA server is a      *)
(* store of issues and comments; a remote call made through request() has  *)
(* an outcome: the number of attempts it took and what the last attempt    *)
(* returned.                                                               *)
(***************************************************************************)
EXTENDS Integers, Sequences, FiniteSets, TLC

VARIABLES
    dryRun,      \* cfg.IsDryRun(): which JIRAClient NewJIRAClient built
    fieldIDs,    \* cfg.fieldIDs: custom field ids by semantic key
    jira,        \* the JIRA project's issues, in creation order
    jcomments,   \* the JIRA comments, in creation order
    clock,       \* time.Now(), in whole ticks
    pc,          \* position of the Sync run
    ghIssues,    \* batch returned by SearchIssues for the run
    jiraIssues,  \* result of ListIssues for the run
    idx,         \* 1-based position of the CompareIssues loop in ghIssues
    ret,         \* what Sync returned: "none" (not yet), "nil" or "err"
    calls,       \* JIRAClient calls made by the run, in order
    runs,        \* number of Sync runs started
    updated,     \* per source id: the GitHub issue last written by a successful Live UpdateIssue
    ops,         \* direct client operations called
    sentMut,     \* mutating HTTP requests sent to JIRA
    sentRead,    \* read-only HTTP requests sent to JIRA
    lastCall,    \* the last direct client operation and what it did
    did,         \* inputs and result of a DidIssueChange evaluation
    project,     \* cfg.project.Key: the key of the project LoadJIRAConfig fetched
    pageCap,     \* the most issues the JIRA server returns in one page of a search
    listed,      \* arguments and result of a ListIssues call on the real client
    rq,          \* a call of request(f): its attempts and what it returned
    meta,        \* what the JIRA server answers to LoadJIRAConfig
    loadErr,     \* what LoadJIRAConfig returned: "none" (not called), "nil" or the error
    query,       \* the configuration buildQuery read, what GetMembers and SearchIssues
                 \* returned, and the terms of the query built
    modes,       \* one source issue taken through the engine with each of the two clients
    dryListed,   \* result of a ListIssues call on the dry-run client
    overlap,     \* the Sync runs of two processes on one JIRA project
    pages,       \* a call of getIssues, page by page
    conf         \* the Config: its options, what validateConfig and SaveConfig did

vars == <<dryRun, fieldIDs, jira, jcomments, clock, pc, ghIssues, jiraIssues, idx,
          ret, calls, runs, updated, ops, sentMut, sentRead, lastCall, did,
          project, pageCap, listed, rq, meta, loadErr, query, modes, dryListed, overlap,
          pages, conf>>

\* the configuration loaded from the server, the server's page cap, and the
\* records of calls looked at on their own
otherVars == <<project, pageCap, listed, rq, meta, loadErr, query, modes, dryListed, overlap,
               pages, conf>>
laterVars == <<modes, dryListed, overlap, pages, conf>>
lastVars == <<pages, conf>>

engineVars == <<pc, ghIssues, jiraIssues, idx, ret, calls, runs, updated>>
engineVarsButPc == <<ghIssues, jiraIssues, idx, ret, calls, runs, updated>>
clientVars == <<ops, sentMut, sentRead, lastCall>>

-----------------------------------------------------------------------------
(* Bounds of the model.                                                    *)

\* source issue ids are 1..NumIds
NumIds == 2
\* longest batch SearchIssues returns
MaxBatch == 2
\* Sync runs per behaviour
MaxRuns == 2
\* most attempts request() makes before its time budget is spent
MaxAttempts == 2
\* direct client operations per behaviour
MaxCalls == 3
\* calls of f that request() counts apart; later calls count as the last of them
MaxTries == 3
\* ticks of elapsed time told apart; it is more than every timeout of the model
MaxElapsed == 4

-----------------------------------------------------------------------------
(* Values of the dynamically typed custom-field map (Fields.Unknowns).     *)

Str(x) == [t |-> "str", s |-> x, n |-> 0]
Num(k) == [t |-> "int", s |-> "", n |-> k]
Null == [t |-> "nil", s |-> "", n |-> 0]

\* m[key] = v on a Go map
Put(m, key, v) == [x \in (DOMAIN m) \cup {key} |-> IF x = key THEN v ELSE m[x]]

EmptyMap == [x \in {} |-> Null]

\* tcontainer.MarshalMap.Value: the value and nil if the key is absent
UnknownsValue(m, key) == IF key \in DOMAIN m THEN m[key] ELSE Null

\* tcontainer.MarshalMap.String: the string, or "" and an error
UnknownsString(m, key) ==
    IF key \in DOMAIN m /\ m[key].t = "str"
    THEN [err |-> FALSE, val |-> m[key].s]
    ELSE [err |-> TRUE, val |-> ""]

\* tcontainer.MarshalMap.Int: the number, or 0 and an error
UnknownsInt(m, key) ==
    IF key \in DOMAIN m /\ m[key].t = "int"
    THEN [err |-> FALSE, val |-> m[key].n]
    ELSE [err |-> TRUE, val |-> 0]

-----------------------------------------------------------------------------
(* Configuration: the custom field keys.                                   *)

\* the ids getFieldIDs resolves from the field metadata
ResolvedFieldIDs ==
    [githubID |-> "10001", githubNumber |-> "10002", githubLabels |-> "10003",
     githubStatus |-> "10004", githubReporter |-> "10005", lastUpdate |-> "10006",
     githubURI |-> "10007"]

GetFieldID(key) ==
    CASE key = "GitHubID" -> fieldIDs.githubID
      [] key = "GitHubNumber" -> fieldIDs.githubNumber
      [] key = "GitHubLabels" -> fieldIDs.githubLabels
      [] key = "GitHubReporter" -> fieldIDs.githubReporter
      [] key = "GitHubStatus" -> fieldIDs.githubStatus
      [] key = "LastISUpdate" -> fieldIDs.lastUpdate
      [] key = "GitHubURI" -> fieldIDs.githubURI
      [] OTHER -> ""

GetFieldKey(key) == "customfield_" \o GetFieldID(key)

\* time.Time.Format(dateFormat) of the instants of the model
FormatDate(t) ==
    CASE t = 0 -> "1970-01-01T00:00:00+0000"
      [] t = 1 -> "2020-01-01T00:00:00+0000"
      [] t = 2 -> "2020-01-02T00:00:00+0000"
      [] OTHER -> "2020-01-03T00:00:00+0000"

-----------------------------------------------------------------------------
(* strings.Join(labels, ",")                                               *)

RECURSIVE JoinFrom(_, _)
JoinFrom(labels, i) ==
    IF i > Len(labels) THEN ""
    ELSE IF i = Len(labels) THEN labels[i]
    ELSE labels[i] \o "," \o JoinFrom(labels, i + 1)

Join(labels) == JoinFrom(labels, 1)

-----------------------------------------------------------------------------
(* DidIssueChange                                                          *)

\* the status test that lets a failed read pass
StatusDiffersIfRead(ghIssue, jIssue) ==
    LET f == UnknownsString(jIssue.Fields.Unknowns, GetFieldKey("GitHubStatus"))
    IN  ~f.err /\ ghIssue.State # f.val

StatusDiffers(ghIssue, jIssue) ==
    LET f == UnknownsString(jIssue.Fields.Unknowns, GetFieldKey("GitHubStatus"))
    IN  f.err \/ ghIssue.State # f.val

ReporterDiffers(ghIssue, jIssue) ==
    LET f == UnknownsString(jIssue.Fields.Unknowns, GetFieldKey("GitHubReporter"))
    IN  f.err \/ ghIssue.Login # f.val

\* the labels test with "or" in place of "and"
LabelsDifferOrUnread(ghIssue, jIssue) ==
    LET f == UnknownsString(jIssue.Fields.Unknowns, GetFieldKey("GitHubLabels"))
    IN  f.err \/ Join(ghIssue.Labels) # f.val

\* the labels test of the code: err != nil && joined != field
LabelsDiffer(ghIssue, jIssue) ==
    LET f == UnknownsString(jIssue.Fields.Unknowns, GetFieldKey("GitHubLabels"))
    IN  f.err /\ Join(ghIssue.Labels) # f.val

DidIssueChange(ghIssue, jIssue) ==
    \/ ghIssue.Title # jIssue.Fields.Summary
    \/ ghIssue.Body # jIssue.Fields.Description
    \/ StatusDiffers(ghIssue, jIssue)
    \/ ReporterDiffers(ghIssue, jIssue)
    \/ LabelsDiffer(ghIssue, jIssue)

-----------------------------------------------------------------------------
(* The JIRA server: issues of the project, searched, fetched, created and  *)
(* updated over REST.                                                      *)

ProjectKey == "PROJ"

ZeroFields ==
    [Summary |-> "", Description |-> "", Type |-> "", Project |-> "", Unknowns |-> EmptyMap]

\* jira.Issue{}
ZeroIssue == [Key |-> "", ID |-> "", Fields |-> ZeroFields]

Min(a, b) == IF a < b THEN a ELSE b

\* JQL: project='P' [AND cf[field] in (ids)]; ids is the list, filtered says whether the second term is there
JQLMatches(jql, issue) ==
    /\ issue.Fields.Project = jql.project
    /\ jql.filtered =>
          LET v == UnknownsInt(issue.Fields.Unknowns, "customfield_" \o jql.field)
          IN  ~v.err /\ \E k \in 1..Len(jql.ids) : jql.ids[k] = v.val

\* the issues of the store from position i on that match the JQL, in order
MatchingFrom(store, jql, i) ==
    LET Matches(issue) == JQLMatches(jql, issue)
    IN  SelectSeq(SubSeq(store, i, Len(store)), Matches)

\* GET rest/api/2/search: one page of the matching issues, of at most
\* maxResults issues and at most the server's own cap, and their total
ServerSearch(store, jql, startAt, maxResults) ==
    LET all == MatchingFrom(store, jql, 1)
    IN  [issues |-> SubSeq(all, startAt + 1,
                           Min(Len(all), startAt + Min(maxResults, pageCap))),
         total |-> Len(all)]

\* position of the issue with this key in the store, 0 if none
IndexOfKey(store, key) ==
    IF \E k \in 1..Len(store) : store[k].Key = key
    THEN CHOOSE k \in 1..Len(store) : store[k].Key = key
    ELSE 0

\* POST rest/api/2/issue: the server stores the fields and assigns id and key
ServerCreate(store, issue) ==
    LET n == Len(store) + 1
        created == [Key |-> ProjectKey \o "-" \o ToString(n), ID |-> ToString(10000 + n),
                    Fields |-> issue.Fields]
    IN  [store |-> Append(store, created), issue |-> created]

\* PUT rest/api/2/issue/{key}: the server stores the submitted fields as given
\* and keeps the custom fields the request does not name
ServerUpdate(store, issue) ==
    LET k == IndexOfKey(store, issue.Key)
        old == store[k]
        new == issue.Fields.Unknowns
        merged == [x \in (DOMAIN old.Fields.Unknowns) \cup (DOMAIN new) |->
                      IF x \in DOMAIN new THEN new[x] ELSE old.Fields.Unknowns[x]]
        stored == [old EXCEPT !.Fields.Summary = issue.Fields.Summary,
                              !.Fields.Description = issue.Fields.Description,
                              !.Fields.Type = issue.Fields.Type,
                              !.Fields.Unknowns = merged]
    IN  [store EXCEPT ![k] = stored]

\* the server accepts GET/PUT on issue/{key} only for an issue it holds
HasKey(store, key) == IndexOfKey(store, key) # 0

\* the server accepts POST issue/{id}/comment only for an issue it holds
HasID(store, id) == \E k \in 1..Len(store) : store[k].ID = id

\* a long text: the one-byte characters of head, followed by pad more
\* characters of width bytes each in UTF-8, followed by the first torn bytes
\* of one more such character
ZeroText == [head |-> "", pad |-> 0, width |-> 1, torn |-> 0]

\* len(text): the number of bytes of a Go string
TextLen(text) == Len(text.head) + text.pad * text.width + text.torn

\* the number of characters of a text, a torn character counted as one
TextChars(text) == Len(text.head) + text.pad + (IF text.torn > 0 THEN 1 ELSE 0)

\* jira.Comment{}
ZeroComment == [ID |-> "", IssueID |-> "", Body |-> ZeroText]

\* POST rest/api/2/issue/{id}/comment
ServerAddComment(comments, issueID, body) ==
    LET created == [ID |-> ToString(Len(comments) + 1), IssueID |-> issueID, Body |-> body]
    IN  [comments |-> Append(comments, created), comment |-> created]

HasComment(comments, id) == \E k \in 1..Len(comments) : comments[k].ID = id

\* PUT rest/api/2/issue/{key}/comment/{id}
ServerPutComment(comments, id, body) ==
    [k \in 1..Len(comments) |->
        IF comments[k].ID = id THEN [comments[k] EXCEPT !.Body = body] ELSE comments[k]]

-----------------------------------------------------------------------------
(* request and getErrorBody                                                *)

\* what the last attempt of a request can return: a result ("ok"), an error
\* response whose body can be read ("body") or not ("unreadable"), or an
\* error and no response at all ("nores")
LastKinds == {"ok", "body", "unreadable", "nores"}

Outcomes == [attempts : 1..MaxAttempts, last : LastKinds]

\* the outcomes as the engine sees them: it learns what a call returned, not
\* how many attempts request() made
Returns == [attempts : {1}, last : LastKinds]

\* the server answers a request it cannot serve (unknown key or id) with an error body
Served(out, accepted) ==
    IF out.last = "ok" /\ ~accepted THEN [out EXCEPT !.last = "body"] ELSE out

\* request: backoff.RetryNotify calls f until it returns no error or the time
\* budget is spent; ret, res and the error are those of the last call of f
request(out) ==
    [err |-> out.last # "ok", res |-> out.last, attempts |-> out.attempts]

\* getErrorBody: res.Body of a nil response panics; a read error is returned
\* as it is; otherwise the body is the error
getErrorBody(res) ==
    CASE res = "nores" -> [kind |-> "panic", err |-> ""]
      [] res = "unreadable" -> [kind |-> "err", err |-> "read error"]
      [] OTHER -> [kind |-> "err", err |-> "response body"]

\* what a client operation hands back: its return values, the server state
\* it leaves, and the HTTP requests it sent
Result(store, comments) ==
    [kind |-> "ok", err |-> "", issue |-> ZeroIssue, issues |-> <<>>,
     comment |-> ZeroComment, store |-> store, comments |-> comments,
     sentMut |-> 0, sentRead |-> 0]

\* return <zero value>, getErrorBody(j.cfg, res)
Failed(r, res) ==
    LET e == getErrorBody(res)
    IN  [r EXCEPT !.kind = e.kind, !.err = e.err]

-----------------------------------------------------------------------------
(* realJIRAClient                                                          *)

maxJQLIssueLength == 100

maxResults == 50

maxBodyLength == 32768

GetProjectKey == project

\* the JQL ListIssues builds
ListJQL(ids) ==
    IF Len(ids) < maxJQLIssueLength
    THEN [project |-> GetProjectKey, filtered |-> TRUE,
          field |-> GetFieldID("GitHubID"), ids |-> ids]
    ELSE [project |-> GetProjectKey, filtered |-> FALSE, field |-> "", ids |-> <<>>]

\* the client-side filter of ListIssues: the issues from position i on whose
\* GitHub ID field is set, reads as an integer and is one of ids
FilterByID(issues, ids, i) ==
    LET Keep(issue) ==
            LET u == issue.Fields.Unknowns
                key == GetFieldKey("GitHubID")
                id == UnknownsInt(u, key)
            IN  /\ UnknownsValue(u, key) # Null
                /\ ~id.err
                /\ \E k \in 1..Len(ids) : ids[k] = id.val
    IN  SelectSeq(SubSeq(issues, i, Len(issues)), Keep)

\* ListIssues, after the search: use the result as is, or filter it
FilterListed(issues, ids) ==
    IF Len(ids) < maxJQLIssueLength THEN issues ELSE FilterByID(issues, ids, 1)

RECURSIVE getIssuesPage(_, _, _, _, _)
\* one iteration of the loop of getIssues, and those after it
getIssuesPage(store, jql, out, page, acc) ==
    LET r == request(out)
        sent == [acc EXCEPT !.sentRead = @ + r.attempts]
    IN  IF r.err THEN Failed([sent EXCEPT !.issues = <<>>], r.res)
        ELSE LET p == ServerSearch(store, jql, maxResults * page, maxResults)
                 got == [sent EXCEPT !.issues = @ \o p.issues]
             IN  IF (page + 1) * maxResults < p.total
                 THEN getIssuesPage(store, jql, out, page + 1, got)
                 ELSE got

getIssues(store, comments, jql, out) ==
    getIssuesPage(store, jql, out, 0, Result(store, comments))

realListIssues(store, comments, ids, out) ==
    LET r == getIssues(store, comments, ListJQL(ids), out)
    IN  IF r.kind # "ok" THEN r
        ELSE [r EXCEPT !.issues = FilterListed(r.issues, ids)]

realGetIssue(store, comments, key, out) ==
    LET r == request(Served(out, HasKey(store, key)))
        base == [Result(store, comments) EXCEPT !.sentRead = r.attempts]
    IN  IF r.err THEN Failed(base, r.res)
        ELSE [base EXCEPT !.issue = store[IndexOfKey(store, key)]]

realCreateIssue(store, comments, issue, out) ==
    LET r == request(out)
        base == [Result(store, comments) EXCEPT !.sentMut = r.attempts]
    IN  IF r.err THEN Failed(base, r.res)
        ELSE LET c == ServerCreate(store, issue)
             IN  [base EXCEPT !.store = c.store, !.issue = c.issue]

realUpdateIssue(store, comments, issue, out) ==
    LET r == request(Served(out, HasKey(store, issue.Key)))
        base == [Result(store, comments) EXCEPT !.sentMut = r.attempts]
    IN  IF r.err THEN Failed(base, r.res)
        ELSE [base EXCEPT !.store = ServerUpdate(store, issue), !.issue = issue]

\* time.Time.Format(commentDateFormat) of the instants of the model
FormatCommentDate(t) ==
    CASE t = 0 -> "00:00 AM, January 1 1970"
      [] t = 1 -> "00:00 AM, January 1 2020"
      [] OTHER -> "13:30 PM, January 2 2020"

\* body[:n - 1] in the place of body[:n]
PrefixOneLess(text, n) ==
    [text EXCEPT !.pad = (n - 1 - Len(text.head)) \div text.width,
                 !.torn = (n - 1 - Len(text.head)) % text.width]

\* body[:n] of a text at least n bytes long whose head is shorter than n:
\* the slice is of bytes and can end inside a character
Prefix(text, n) ==
    [text EXCEPT !.pad = (n - Len(text.head)) \div text.width,
                 !.torn = (n - Len(text.head)) % text.width]

\* the comment body the real client composes
realCommentBody(comment, user) ==
    LET h1 == "Comment [(ID " \o ToString(comment.ID) \o ")|" \o comment.HTMLURL \o "]"
        h2 == h1 \o " from GitHub user [" \o user.Login \o "|" \o user.HTMLURL \o "]"
        h3 == IF user.Name # "" THEN h2 \o " (" \o user.Name \o ")" ELSE h2
    IN  [head |-> h3 \o " at " \o FormatCommentDate(comment.CreatedAt) \o ":\n\n"
                     \o comment.Body.head,
         pad |-> comment.Body.pad, width |-> comment.Body.width,
         torn |-> comment.Body.torn]

\* realCreateComment with the request sent before the author lookup is looked at
realCreateCommentSendFirst(store, comments, issue, comment, user, out) ==
    LET composed == realCommentBody(comment, user)
        body == IF TextLen(composed) >= maxBodyLength
                THEN Prefix(composed, maxBodyLength) ELSE composed
        r == request(Served(out, HasID(store, issue.ID)))
        base == [Result(store, comments) EXCEPT !.sentMut = r.attempts]
    IN  IF r.err THEN Failed(base, r.res)
        ELSE IF ~user.ok THEN [base EXCEPT !.kind = "err", !.err = "lookup"]
        ELSE LET c == ServerAddComment(comments, issue.ID, body)
             IN  [base EXCEPT !.comments = c.comments, !.comment = c.comment]

realCreateComment(store, comments, issue, comment, user, out) ==
    LET composed == realCommentBody(comment, user)
        body == IF TextLen(composed) >= maxBodyLength
                THEN Prefix(composed, maxBodyLength) ELSE composed
        r == request(Served(out, HasID(store, issue.ID)))
        base == [Result(store, comments) EXCEPT !.sentMut = r.attempts]
    IN  IF ~user.ok THEN [Result(store, comments) EXCEPT !.kind = "err", !.err = "lookup"]
        ELSE IF r.err THEN Failed(base, r.res)
        ELSE LET c == ServerAddComment(comments, issue.ID, body)
             IN  [base EXCEPT !.comments = c.comments, !.comment = c.comment]

realUpdateComment(store, comments, issue, id, comment, user, out) ==
    LET composed == realCommentBody(comment, user)
        r == request(Served(out, HasKey(store, issue.Key) /\ HasComment(comments, id)))
        base == [Result(store, comments) EXCEPT !.sentMut = r.attempts]
    IN  IF ~user.ok THEN [Result(store, comments) EXCEPT !.kind = "err", !.err = "lookup"]
        \* len(body) < maxBodyLength: body[:maxBodyLength] is out of range
        ELSE IF TextLen(composed) < maxBodyLength
        THEN [Result(store, comments) EXCEPT !.kind = "panic"]
        ELSE IF r.err THEN Failed(base, r.res)
        \* the closure returns a nil result: com.(*jira.Comment) does not hold
        ELSE [base EXCEPT !.comments = ServerPutComment(comments, id, composed),
                          !.kind = "err", !.err = "type"]

-----------------------------------------------------------------------------
(* dryrunJIRAClient                                                        *)

\* Issue.Search(jql, nil): one request, the server's first page
dryrunListIssues(store, comments, ids, out) ==
    LET r == request(out)
        base == [Result(store, comments) EXCEPT !.sentRead = r.attempts]
    IN  IF r.err THEN Failed(base, r.res)
        ELSE [base EXCEPT !.issues =
                 FilterListed(ServerSearch(store, ListJQL(ids), 0, maxResults).issues, ids)]

dryrunGetIssue(store, comments, key, out) ==
    LET r == request(Served(out, HasKey(store, key)))
        base == [Result(store, comments) EXCEPT !.sentRead = r.attempts]
    IN  IF r.err THEN Failed(base, r.res)
        ELSE [base EXCEPT !.issue = store[IndexOfKey(store, key)]]

\* dryrunCreateIssue making the request of the real client
dryrunCreateIssueSends(store, comments, issue, out) ==
    realCreateIssue(store, comments, issue, out)

dryrunCreateIssue(store, comments, issue, out) ==
    [Result(store, comments) EXCEPT !.issue = issue]

dryrunUpdateIssue(store, comments, issue, out) ==
    [Result(store, comments) EXCEPT !.issue = issue]

\* the comment body the dry-run client composes
dryrunCommentBody(comment, user) ==
    LET h1 == "Comment (ID " \o ToString(comment.ID) \o ") from GitHub user " \o user.Login
        h2 == IF user.Name # "" THEN h1 \o " (" \o user.Name \o ")" ELSE h1
    IN  [head |-> h2 \o " at " \o FormatCommentDate(comment.CreatedAt) \o ":\n\n"
                     \o comment.Body.head,
         pad |-> comment.Body.pad, width |-> comment.Body.width,
         torn |-> comment.Body.torn]

\* dryrunCreateComment that does not look at the error of GetUser
dryrunCreateCommentAnyAuthor(store, comments, issue, comment, user, out) ==
    [Result(store, comments) EXCEPT
        !.comment = [ZeroComment EXCEPT !.Body = dryrunCommentBody(comment, user)]]

dryrunCreateComment(store, comments, issue, comment, user, out) ==
    IF ~user.ok THEN [Result(store, comments) EXCEPT !.kind = "err", !.err = "lookup"]
    ELSE [Result(store, comments) EXCEPT
             !.comment = [ZeroComment EXCEPT !.Body = dryrunCommentBody(comment, user)]]

dryrunUpdateComment(store, comments, issue, id, comment, user, out) ==
    IF ~user.ok THEN [Result(store, comments) EXCEPT !.kind = "err", !.err = "lookup"]
    ELSE [Result(store, comments) EXCEPT
             !.comment = [ZeroComment EXCEPT !.ID = id,
                                             !.Body = dryrunCommentBody(comment, user)]]

-----------------------------------------------------------------------------
(* JIRAClient: the interface, bound by NewJIRAClient to one of the two     *)

ListIssues(store, comments, ids, out) ==
    IF dryRun THEN dryrunListIssues(store, comments, ids, out)
    ELSE realListIssues(store, comments, ids, out)

GetIssue(store, comments, key, out) ==
    IF dryRun THEN dryrunGetIssue(store, comments, key, out)
    ELSE realGetIssue(store, comments, key, out)

ClientCreateIssue(store, comments, issue, out) ==
    IF dryRun THEN dryrunCreateIssue(store, comments, issue, out)
    ELSE realCreateIssue(store, comments, issue, out)

ClientUpdateIssue(store, comments, issue, out) ==
    IF dryRun THEN dryrunUpdateIssue(store, comments, issue, out)
    ELSE realUpdateIssue(store, comments, issue, out)

CreateComment(store, comments, issue, comment, user, out) ==
    IF dryRun THEN dryrunCreateComment(store, comments, issue, comment, user, out)
    ELSE realCreateComment(store, comments, issue, comment, user, out)

UpdateComment(store, comments, issue, id, comment, user, out) ==
    IF dryRun THEN dryrunUpdateComment(store, comments, issue, id, comment, user, out)
    ELSE realUpdateComment(store, comments, issue, id, comment, user, out)

-----------------------------------------------------------------------------
(* The engine: UpdateIssue, CreateIssue and comment reconciliation.        *)

\* an entry of the run's call record: the engine function or JIRAClient method
\* called, the position of the source issue it was called for (0: the batch),
\* its key argument or its list of ids, and how it returned ("ok", "err" or
\* "panic"); for jClient.CreateIssue and jClient.UpdateIssue also the issue
\* submitted and the key of the issue returned
Call(op, src, arg, res) ==
    [op |-> op, src |-> src, arg |-> arg, ids |-> <<>>, res |-> res, issue |-> ZeroIssue,
     got |-> ""]

ListCall(ids, res) ==
    [op |-> "jClient.ListIssues", src |-> 0, arg |-> "", ids |-> ids, res |-> res,
     issue |-> ZeroIssue, got |-> ""]

SubmitCall(op, src, arg, r, issue) ==
    [op |-> op, src |-> src, arg |-> arg, ids |-> <<>>, res |-> r.kind, issue |-> issue,
     got |-> r.issue.Key]

\* comment reconciliation of one issue: it returns nil or an error and
\* leaves the issues of the project as they are
CompareComments(store, comments, ghIssue, jIssue, com) ==
    [Result(store, comments) EXCEPT !.kind = com]

\* UpdateRequest that also writes the GitHub ID field, from the issue number
UpdateRequestRenumbered(ghIssue, jIssue, now) ==
    LET f1 == Put(EmptyMap, GetFieldKey("GitHubStatus"), Str(ghIssue.State))
        f2 == Put(f1, GetFieldKey("GitHubReporter"), Str(ghIssue.Login))
        f3 == Put(f2, GetFieldKey("GitHubLabels"), Str(Join(ghIssue.Labels)))
        f4 == Put(f3, GetFieldKey("LastISUpdate"), Str(FormatDate(now)))
        f5 == Put(f4, GetFieldKey("GitHubID"), Num(ghIssue.Number))
    IN  [Key |-> jIssue.Key, ID |-> jIssue.ID,
         Fields |-> [Summary |-> ghIssue.Title, Description |-> ghIssue.Body,
                     Type |-> jIssue.Fields.Type, Project |-> "", Unknowns |-> f5]]

\* UpdateRequest with the summary of the JIRA issue left as it is
UpdateRequestKeepSummary(ghIssue, jIssue, now) ==
    LET f1 == Put(EmptyMap, GetFieldKey("GitHubStatus"), Str(ghIssue.State))
        f2 == Put(f1, GetFieldKey("GitHubReporter"), Str(ghIssue.Login))
        f3 == Put(f2, GetFieldKey("GitHubLabels"), Str(Join(ghIssue.Labels)))
        f4 == Put(f3, GetFieldKey("LastISUpdate"), Str(FormatDate(now)))
    IN  [Key |-> jIssue.Key, ID |-> jIssue.ID,
         Fields |-> [Summary |-> jIssue.Fields.Summary, Description |-> ghIssue.Body,
                     Type |-> jIssue.Fields.Type, Project |-> "", Unknowns |-> f4]]

\* the issue UpdateIssue submits to the client
UpdateRequest(ghIssue, jIssue, now) ==
    LET f1 == Put(EmptyMap, GetFieldKey("GitHubStatus"), Str(ghIssue.State))
        f2 == Put(f1, GetFieldKey("GitHubReporter"), Str(ghIssue.Login))
        f3 == Put(f2, GetFieldKey("GitHubLabels"), Str(Join(ghIssue.Labels)))
        f4 == Put(f3, GetFieldKey("LastISUpdate"), Str(FormatDate(now)))
    IN  [Key |-> jIssue.Key, ID |-> jIssue.ID,
         Fields |-> [Summary |-> ghIssue.Title, Description |-> ghIssue.Body,
                     Type |-> jIssue.Fields.Type, Project |-> "", Unknowns |-> f4]]

\* CreateRequest without the labels
CreateRequestNoLabels(issue, now) ==
    LET f1 == Put(EmptyMap, GetFieldKey("GitHubID"), Num(issue.ID))
        f2 == Put(f1, GetFieldKey("GitHubNumber"), Num(issue.Number))
        f3 == Put(f2, GetFieldKey("GitHubStatus"), Str(issue.State))
        f4 == Put(f3, GetFieldKey("GitHubReporter"), Str(issue.Login))
        f6 == Put(f4, GetFieldKey("LastISUpdate"), Str(FormatDate(now)))
    IN  [Key |-> "", ID |-> "",
         Fields |-> [Summary |-> issue.Title, Description |-> issue.Body,
                     Type |-> "Task", Project |-> GetProjectKey, Unknowns |-> f6]]

\* the issue CreateIssue submits to the client
CreateRequest(issue, now) ==
    LET f1 == Put(EmptyMap, GetFieldKey("GitHubID"), Num(issue.ID))
        f2 == Put(f1, GetFieldKey("GitHubNumber"), Num(issue.Number))
        f3 == Put(f2, GetFieldKey("GitHubStatus"), Str(issue.State))
        f4 == Put(f3, GetFieldKey("GitHubReporter"), Str(issue.Login))
        f5 == Put(f4, GetFieldKey("GitHubLabels"), Str(Join(issue.Labels)))
        f6 == Put(f5, GetFieldKey("LastISUpdate"), Str(FormatDate(now)))
    IN  [Key |-> "", ID |-> "",
         Fields |-> [Summary |-> issue.Title, Description |-> issue.Body,
                     Type |-> "Task", Project |-> GetProjectKey, Unknowns |-> f6]]

\* UpdateIssue with the issue fetched before it is updated
UpdateIssueGetFirst(store, comments, ghIssue, jIssue, src, now, oMut, oGet, com) ==
    LET changed == DidIssueChange(ghIssue, jIssue)
        g == GetIssue(store, comments, jIssue.Key, oGet)
        gCalls == <<Call("jClient.GetIssue", src, jIssue.Key, g.kind)>>
        u == IF changed
             THEN ClientUpdateIssue(g.store, comments, UpdateRequest(ghIssue, jIssue, now), oMut)
             ELSE Result(g.store, comments)
        uCalls == IF changed
                  THEN gCalls \o <<Call("jClient.UpdateIssue", src, jIssue.Key, u.kind)>>
                  ELSE gCalls
        c == CompareComments(u.store, comments, ghIssue, g.issue, com)
        cCalls == uCalls \o <<Call("CompareComments", src, g.issue.Key, c.kind)>>
    IN  IF g.kind # "ok"
        THEN [store |-> g.store, calls |-> gCalls, res |-> g.kind, wrote |-> FALSE]
        ELSE IF u.kind # "ok"
        THEN [store |-> u.store, calls |-> uCalls, res |-> u.kind, wrote |-> FALSE]
        ELSE [store |-> c.store, calls |-> cCalls, res |-> c.kind, wrote |-> changed]

\* UpdateIssue: what it leaves on the server, the client calls it made, how
\* it returned, and whether its jClient.UpdateIssue call was made and succeeded
UpdateIssue(store, comments, ghIssue, jIssue, src, now, oMut, oGet, com) ==
    LET changed == DidIssueChange(ghIssue, jIssue)
        u == IF changed
             THEN ClientUpdateIssue(store, comments, UpdateRequest(ghIssue, jIssue, now), oMut)
             ELSE Result(store, comments)
        uCalls == IF changed
                  THEN <<SubmitCall("jClient.UpdateIssue", src, jIssue.Key, u,
                                    UpdateRequest(ghIssue, jIssue, now))>>
                  ELSE <<>>
        g == GetIssue(u.store, comments, jIssue.Key, oGet)
        gCalls == uCalls \o <<Call("jClient.GetIssue", src, jIssue.Key, g.kind)>>
        c == CompareComments(g.store, comments, ghIssue, g.issue, com)
        cCalls == gCalls \o <<Call("CompareComments", src, g.issue.Key, c.kind)>>
    IN  IF u.kind # "ok"
        THEN [store |-> u.store, calls |-> uCalls, res |-> u.kind, wrote |-> FALSE]
        ELSE IF g.kind # "ok"
        THEN [store |-> g.store, calls |-> gCalls, res |-> g.kind, wrote |-> changed]
        ELSE [store |-> c.store, calls |-> cCalls, res |-> c.kind, wrote |-> changed]

\* CreateIssue
\* CreateIssue that goes on to GetIssue after jClient.CreateIssue returned an error
CreateIssueGoOn(store, comments, issue, src, now, oMut, oGet, com) ==
    LET u == ClientCreateIssue(store, comments, CreateRequest(issue, now), oMut)
        uCalls == <<SubmitCall("jClient.CreateIssue", src, "", u, CreateRequest(issue, now))>>
        g == GetIssue(u.store, comments, u.issue.Key, oGet)
        gCalls == uCalls \o <<Call("jClient.GetIssue", src, u.issue.Key, g.kind)>>
        c == CompareComments(g.store, comments, issue, g.issue, com)
        cCalls == gCalls \o <<Call("CompareComments", src, g.issue.Key, c.kind)>>
    IN  IF u.kind = "panic"
        THEN [store |-> u.store, calls |-> uCalls, res |-> u.kind, wrote |-> FALSE]
        ELSE IF g.kind # "ok"
        THEN [store |-> g.store, calls |-> gCalls, res |-> g.kind, wrote |-> FALSE]
        ELSE [store |-> c.store, calls |-> cCalls, res |-> c.kind, wrote |-> FALSE]

CreateIssue(store, comments, issue, src, now, oMut, oGet, com) ==
    LET u == ClientCreateIssue(store, comments, CreateRequest(issue, now), oMut)
        uCalls == <<SubmitCall("jClient.CreateIssue", src, "", u, CreateRequest(issue, now))>>
        g == GetIssue(u.store, comments, u.issue.Key, oGet)
        gCalls == uCalls \o <<Call("jClient.GetIssue", src, u.issue.Key, g.kind)>>
        c == CompareComments(g.store, comments, issue, g.issue, com)
        cCalls == gCalls \o <<Call("CompareComments", src, g.issue.Key, c.kind)>>
    IN  IF u.kind # "ok"
        THEN [store |-> u.store, calls |-> uCalls, res |-> u.kind, wrote |-> FALSE]
        ELSE IF g.kind # "ok"
        THEN [store |-> g.store, calls |-> gCalls, res |-> g.kind, wrote |-> FALSE]
        ELSE [store |-> c.store, calls |-> cCalls, res |-> c.kind, wrote |-> FALSE]

\* FindMatch comparing the source id with the GitHub Number field
RECURSIVE FindMatchByNumber(_, _, _)
FindMatchByNumber(issues, ghIssue, k) ==
    IF k > Len(issues) THEN 0
    ELSE IF UnknownsInt(issues[k].Fields.Unknowns, GetFieldKey("GitHubNumber")).val = ghIssue.ID
    THEN k
    ELSE FindMatchByNumber(issues, ghIssue, k + 1)

\* the inner loop of CompareIssues: position in jiraIssues of the first issue
\* whose GitHub ID field equals the source id, 0 if there is none
RECURSIVE FindMatch(_, _, _)
FindMatch(issues, ghIssue, k) ==
    IF k > Len(issues) THEN 0
    ELSE IF UnknownsInt(issues[k].Fields.Unknowns, GetFieldKey("GitHubID")).val = ghIssue.ID
    THEN k
    ELSE FindMatch(issues, ghIssue, k + 1)

\* ids[i] = v.GetID()
BatchIDs(batch) == [i \in 1..Len(batch) |-> batch[i].ID]

-----------------------------------------------------------------------------
(* Inputs of the model.                                                    *)

Ids == 1..NumIds

GhIssue(id, title, body, state, login, labels) ==
    [ID |-> id, Number |-> 100 + id, Title |-> title, Body |-> body, State |-> state,
     Login |-> login, Labels |-> labels]

\* no GitHub issue
NoGhIssue == GhIssue(0, "", "", "", "", <<>>)

BaseIssue(id) == GhIssue(id, "t1", "b1", "open", "alice", <<"bug">>)

\* the GitHub issues of the model: per id, a base issue and the issues that
\* differ from it in one field
GhIssueSet ==
    UNION {{BaseIssue(id),
            [BaseIssue(id) EXCEPT !.Title = "t2"],
            [BaseIssue(id) EXCEPT !.State = "closed"],
            [BaseIssue(id) EXCEPT !.Labels = <<"bug", "ui">>]} : id \in Ids}

\* what SearchIssues can return: up to MaxBatch issues with distinct ids
Batches ==
    {b \in UNION {[1..n -> GhIssueSet] : n \in 0..MaxBatch} :
        \A i, k \in 1..Len(b) : i # k => b[i].ID # b[k].ID}

\* a JIRA issue that mirrors the GitHub issue g: the issue CreateIssue
\* made for it at the first tick, with the six fields CreateIssue writes
Mirror(n, g) ==
    [Key |-> ProjectKey \o "-" \o ToString(n), ID |-> ToString(10000 + n),
     Fields |-> [Summary |-> g.Title, Description |-> g.Body, Type |-> "Task",
                 Project |-> ProjectKey,
                 Unknowns |-> [x \in {"customfield_10001", "customfield_10002",
                                       "customfield_10003", "customfield_10004",
                                       "customfield_10005", "customfield_10006"} |->
                     CASE x = "customfield_10001" -> Num(g.ID)
                       [] x = "customfield_10002" -> Num(g.Number)
                       [] x = "customfield_10003" -> Str(Join(g.Labels))
                       [] x = "customfield_10004" -> Str(g.State)
                       [] x = "customfield_10005" -> Str(g.Login)
                       [] OTHER -> Str(FormatDate(1))]]]

\* m without the key
Without(m, key) == [x \in (DOMAIN m) \ {key} |-> m[x]]

\* the JIRA projects a run can start from: empty, or one issue that mirrors
\* GitHub issue 1, whole or with a mirrored field removed or emptied by hand
InitStores ==
    LET whole == Mirror(1, BaseIssue(1))
        u == whole.Fields.Unknowns
    IN  {<<>>, <<whole>>,
         <<[whole EXCEPT !.Fields.Unknowns = Without(u, "customfield_10004")]>>,
         <<[whole EXCEPT !.Fields.Unknowns = Put(u, "customfield_10003", Null)]>>}

\* the record of a direct client operation: how many calls were made so far,
\* the operation, whether its author lookup succeeded, the length of the
\* comment body the real client composes, the attempts its request takes if
\* it is sent, how the operation returned and the mutating requests it sent;
\* then what the last attempt of its request comes to if it is sent, the
\* error text returned, the read requests sent, the comment returned, the
\* comment body the real client composes and the id of the comment to update
NoCall ==
    [n |-> 0, op |-> "", userOk |-> TRUE, bodyLen |-> 0, attempts |-> 0, kind |-> "",
     sent |-> 0, last |-> "", err |-> "", sentRead |-> 0, comment |-> ZeroComment,
     composed |-> ZeroText, id |-> ""]

NoDid == [gh |-> NoGhIssue, j |-> ZeroIssue, result |-> FALSE]

\* no ListIssues call looked at
NoListed == [ids |-> <<>>, kind |-> "", fetched |-> <<>>, issues |-> <<>>, sentRead |-> 0]

\* a nil result, response or error
NilValue == [n |-> 0, kind |-> "nil"]

\* var ret interface{}; var res *jira.Response; and a nil error
NilReturn == [ret |-> NilValue, res |-> NilValue, err |-> NilValue]

\* no request call looked at: its time budget, whether f fails at every
\* call, the time elapsed since the backoff was reset, the calls of f made,
\* the variables ret and res of request and the error of the last call of f,
\* what f returned last, and what request returned
NoRq == [pc |-> "", timeout |-> 0, always |-> FALSE, elapsed |-> 0, attempts |-> 0,
         ret |-> NilValue, res |-> NilValue, err |-> NilValue,
         lastKind |-> "", last |-> NilReturn, out |-> NilReturn]

\* the configuration of the source: the organisation whose members are
\* asked for, the organisations and repositories searched, and the watermark
\* (its date and time as written in its own zone, and the UTC offset of that
\* zone)
BaseSource ==
    [sourceOrg |-> "acme",
     repos |-> <<[Name |-> "acme", Repos |-> <<>>], [Name |-> "acme2", Repos |-> <<"x", "y">>]>>,
     since |-> [local |-> "2020-01-01T00:00:00", offset |-> "+00:00"]]

\* no query built yet
NoQuery ==
    [cfg |-> BaseSource, members |-> [kind |-> "none", users |-> <<>>], search |-> "none",
     kind |-> "", terms |-> <<>>]

\* no source issue taken through the engine with both clients yet
NoModes ==
    [g |-> NoGhIssue, oMut |-> [attempts |-> 1, last |-> "ok"],
     oGet |-> [attempts |-> 1, last |-> "ok"], com |-> "",
     preview |-> [decision |-> "", ops |-> <<>>, res |-> ""],
     live |-> [decision |-> "", ops |-> <<>>, res |-> ""]]

\* no ListIssues call on the dry-run client yet
NoDryListed == [kind |-> "", issues |-> <<>>]

\* no process has started a run; key is the key of the issue the iteration
\* under way fetches after its first request
NoOverlap ==
    [p \in {1, 2} |-> [pc |-> "idle", ghIssues |-> <<>>, jiraIssues |-> <<>>, idx |-> 0,
                       ret |-> "none", calls |-> <<>>, key |-> ""]]

\* getIssues not called: its jql as the ids of ListIssues, the page counter,
\* totalResults, the issues appended, the StartAt of the requests sent, the
\* requests in flight, whether a page request failed, and how it returned
NoPages ==
    [pc |-> "", ids |-> <<>>, page |-> 0, totalResults |-> 1, issues |-> <<>>,
     sent |-> <<>>, failed |-> FALSE, kind |-> ""]

\* time.Time{}
ZeroTime == [local |-> "0001-01-01T00:00:00", offset |-> "+00:00"]

\* no option given
NoOptions ==
    [githubToken |-> "", jiraUser |-> "", jiraSecret |-> "", jiraToken |-> "",
     consumerKey |-> "", privateKeyPath |-> "", keyFile |-> FALSE, uri |-> "",
     project |-> "", since |-> ""]

\* Config{} before NewConfig: the options given, the value of "since" in
\* cmdConfig, the fields basicAuth and since, the error NewConfig returned,
\* the watermark each run on the Config read, and what each SaveConfig wrote
NoConf ==
    [pc |-> "", opts |-> NoOptions, viperSince |-> "", basicAuth |-> FALSE,
     since |-> ZeroTime, err |-> "", used |-> <<>>, saved |-> <<>>]

NoLater ==
    /\ modes = NoModes
    /\ dryListed = NoDryListed
    /\ overlap = NoOverlap
    /\ pages = NoPages
    /\ conf = NoConf

\* the server holds the project and every custom field
FullMeta ==
    [client |-> "ok", project |-> "ok", fieldsReq |-> "ok",
     names |-> {"GitHub ID", "GitHub Number", "GitHub Labels", "GitHub Status",
                "GitHub Reporter", "Last Issue-Sync Update", "GitHub URI"}]

\* the configuration and the server of a run whose configuration loaded
Loaded ==
    /\ project = ProjectKey
    /\ listed = NoListed
    /\ rq = NoRq
    /\ meta = FullMeta
    /\ loadErr = "nil"
    /\ query = NoQuery
    /\ NoLater

-----------------------------------------------------------------------------
(* Config: NewConfig with validateConfig, GetSinceParam and SaveConfig.    *)

\* time.Parse(dateFormat, s) of the strings of the model: the instant, as
\* its date and time in its own zone and the offset of that zone, or an error
ParseDate(s) ==
    CASE s = "1970-01-01T00:00:00+0000"
            -> [err |-> FALSE, t |-> [local |-> "1970-01-01T00:00:00", offset |-> "+00:00"]]
      [] s = "2020-01-01T00:00:00+0000"
            -> [err |-> FALSE, t |-> [local |-> "2020-01-01T00:00:00", offset |-> "+00:00"]]
      [] s = "2020-01-02T00:00:00+0000"
            -> [err |-> FALSE, t |-> [local |-> "2020-01-02T00:00:00", offset |-> "+00:00"]]
      [] s = "2020-01-03T00:00:00+0000"
            -> [err |-> FALSE, t |-> [local |-> "2020-01-03T00:00:00", offset |-> "+00:00"]]
      [] s = "2020-06-30T23:59:59+0200"
            -> [err |-> FALSE, t |-> [local |-> "2020-06-30T23:59:59", offset |-> "+02:00"]]
      [] OTHER -> [err |-> TRUE, t |-> ZeroTime]

\* url.ParseRequestURI of the strings of the model fails
BadURI(uri) == uri \notin {"https://jira.example.com"}

\* the result of validateConfig: the error, and the fields and the option it
\* set; basicAuth is assigned after the test of the GitHub token only
Validated(o, err, since) ==
    [err |-> err,
     basicAuth |-> o.githubToken # "" /\ o.jiraUser # "" /\ o.jiraSecret # "",
     viperSince |-> IF since /\ o.since = "" THEN "1970-01-01T00:00:00+0000" ELSE o.since,
     since |-> IF err = "" THEN ParseDate(o.since).t ELSE ZeroTime]

\* validateConfig: the checks in their order; with basic authentication the
\* tests of user and secret cannot fail; an empty since sets the default in
\* cmdConfig, and the string read before, sinceStr, is parsed
validateConfig(o) ==
    LET basicAuth == o.jiraUser # "" /\ o.jiraSecret # ""
        sinceStr == o.since
    IN  IF o.githubToken = "" THEN Validated(o, "GitHub token required", FALSE)
        ELSE IF ~basicAuth /\ o.jiraToken = ""
        THEN Validated(o, "JIRA access token required", FALSE)
        ELSE IF ~basicAuth /\ o.jiraSecret = ""
        THEN Validated(o, "JIRA access token secret required", FALSE)
        ELSE IF ~basicAuth /\ o.consumerKey = ""
        THEN Validated(o, "JIRA consumer key required for OAuth handshake", FALSE)
        ELSE IF ~basicAuth /\ o.privateKeyPath = ""
        THEN Validated(o, "JIRA private key required for OAuth handshake", FALSE)
        ELSE IF ~basicAuth /\ ~o.keyFile
        THEN Validated(o, "JIRA private key must point to existing PEM file", FALSE)
        ELSE IF o.uri = "" THEN Validated(o, "JIRA URI required", FALSE)
        ELSE IF BadURI(o.uri) THEN Validated(o, "JIRA URI must be valid URI", FALSE)
        ELSE IF o.project = "" THEN Validated(o, "JIRA project required", FALSE)
        ELSE IF ParseDate(sinceStr).err
        THEN Validated(o, "Since date must be in ISO-8601 format", TRUE)
        ELSE Validated(o, "", TRUE)

\* GetSinceParam: the field since of the Config
GetSinceParam == conf.since

\* the values of the since option: not given, the default written out, a
\* date in another zone, a date without a time
SinceOptions == {"", "1970-01-01T00:00:00+0000", "2020-06-30T23:59:59+0200", "2020-01-01"}

\* the options the program is started with
OptionSets ==
    [githubToken : {"", "ghtoken"}, jiraUser : {"", "user"}, jiraSecret : {"", "secret"},
     jiraToken : {"", "token"}, consumerKey : {"", "ckey"}, privateKeyPath : {"", "key.pem"},
     keyFile : BOOLEAN, uri : {"", "jira", "https://jira.example.com"},
     project : {"", "PROJ"}, since : SinceOptions]

InitConf ==
    /\ dryRun = FALSE
    /\ fieldIDs = ResolvedFieldIDs
    /\ jira = <<>>
    /\ jcomments = <<>>
    /\ clock = 1
    /\ pc = "conf"
    /\ ghIssues = <<>>
    /\ jiraIssues = <<>>
    /\ idx = 0
    /\ ret = "none"
    /\ calls = <<>>
    /\ runs = 0
    /\ updated = [id \in Ids |-> NoGhIssue]
    /\ ops = 0
    /\ sentMut = 0
    /\ sentRead = 0
    /\ lastCall = NoCall
    /\ did = NoDid
    /\ project = ProjectKey
    /\ pageCap = maxResults
    /\ listed = NoListed
    /\ rq = NoRq
    /\ meta = FullMeta
    /\ loadErr = "nil"
    /\ query = NoQuery
    /\ modes = NoModes
    /\ dryListed = NoDryListed
    /\ overlap = NoOverlap
    /\ pages = NoPages
    /\ conf \in {[NoConf EXCEPT !.pc = "new", !.opts = o, !.viperSince = o.since] :
                    o \in OptionSets}

\* NewConfig: validateConfig; on an error Config{} and the error are returned
NewConfig ==
    /\ pc = "conf"
    /\ conf.pc = "new"
    /\ LET v == validateConfig(conf.opts)
       IN  conf' = IF v.err # ""
                   THEN [conf EXCEPT !.pc = "rejected", !.err = v.err]
                   ELSE [conf EXCEPT !.pc = "ready", !.basicAuth = v.basicAuth,
                                     !.viperSince = v.viperSince, !.since = v.since]
    /\ UNCHANGED <<dryRun, fieldIDs, jira, jcomments, clock, engineVars, clientVars, did,
                   project, pageCap, listed, rq, meta, loadErr, query, modes, dryListed,
                   overlap, pages>>

\* a run of Sync on the Config: buildQuery reads the watermark with GetSinceParam
ConfRun ==
    /\ pc = "conf"
    /\ conf.pc \in {"ready", "saved"}
    /\ Len(conf.used) < MaxRuns
    /\ conf' = [conf EXCEPT !.pc = "ran", !.used = Append(@, GetSinceParam)]
    /\ clock' = clock + 1
    /\ UNCHANGED <<dryRun, fieldIDs, jira, jcomments, engineVars, clientVars, did,
                   project, pageCap, listed, rq, meta, loadErr, query, modes, dryListed,
                   overlap, pages>>

\* SaveConfig after a run: "since" is set in cmdConfig to the time now in
\* dateFormat, then the file is opened, which can fail, and written
SaveConfig ==
    /\ pc = "conf"
    /\ conf.pc = "ran"
    /\ \E file \in {"ok", "err"} :
          conf' = [conf EXCEPT !.pc = "saved",
                               !.viperSince = FormatDate(clock),
                               !.saved = Append(@, [text |-> FormatDate(clock),
                                                    ok |-> file = "ok"])]
    /\ UNCHANGED <<dryRun, fieldIDs, jira, jcomments, clock, engineVars, clientVars, did,
                   project, pageCap, listed, rq, meta, loadErr, query, modes, dryListed,
                   overlap, pages>>

NextConf == NewConfig \/ ConfRun \/ SaveConfig

SpecConf == InitConf /\ [][NextConf]_vars

-----------------------------------------------------------------------------
(* getGitHubIssues and buildQuery: the search query of a run. A query is   *)
(* kept as the sequence of its terms; each term is followed by one space   *)
(* in the string handed to SearchIssues.                                   *)

MaxMembers == 2
MaxOrgs == 2

\* since.Format("2006-01-02T15:04:05+07:00"): the layout has no zone element
\* ("+07:00" is not one of -07:00, Z07:00, ...), so the date and time of the
\* watermark in its own zone are followed by the characters +07:00 as they are
FormatSince(since) == since.local \o "+07:00"

buildSinceQuery(since) == <<"updated:>=" \o FormatSince(since)>>

buildRepoQuery(org) ==
    [i \in 1..Len(org.Repos) |-> "repo:" \o org.Name \o "/" \o org.Repos[i]]

RECURSIVE buildOrgQueryFrom(_, _)
\* the loop of buildOrgQuery from the organisation at i on
buildOrgQueryFrom(orgs, i) ==
    IF i > Len(orgs) THEN <<>>
    ELSE (IF Len(orgs[i].Repos) = 0 THEN <<"org:" \o orgs[i].Name>>
          ELSE buildRepoQuery(orgs[i]))
         \o buildOrgQueryFrom(orgs, i + 1)

buildOrgQuery(orgs) == buildOrgQueryFrom(orgs, 1)

\* buildUserQuery: panic(err) when GetMembers fails
buildUserQuery(members) ==
    IF members.kind = "err" THEN [kind |-> "panic", terms |-> <<>>]
    ELSE [kind |-> "ok",
          terms |-> [i \in 1..Len(members.users) |-> "involves:" \o members.users[i]]]

buildQuery(cfg, members) ==
    LET u == buildUserQuery(members)
    IN  IF u.kind = "panic" THEN u
        ELSE [u EXCEPT !.terms = @ \o buildOrgQuery(cfg.repos) \o buildSinceQuery(cfg.since)]

RECURSIVE QueryStringFrom(_, _)
\* the string q of buildQuery: every term followed by a space
QueryStringFrom(terms, i) ==
    IF i > Len(terms) THEN "" ELSE terms[i] \o " " \o QueryStringFrom(terms, i + 1)

QueryString(terms) == QueryStringFrom(terms, 1)

\* what GetMembers can return: an error, or up to MaxMembers members
MemberResults ==
    {[kind |-> "err", users |-> <<>>]}
    \cup {[kind |-> "ok", users |-> u] :
            u \in UNION {[1..n -> {"alice", "bob"}] : n \in 0..MaxMembers}}

\* the organisations a configuration can list
Organisations ==
    {[Name |-> "acme", Repos |-> <<>>], [Name |-> "acme2", Repos |-> <<"x", "y">>],
     [Name |-> "solo", Repos |-> <<"x">>]}

\* the watermarks of the model: instants written in zones of several offsets
Watermarks ==
    {[local |-> "2020-01-01T00:00:00", offset |-> "+00:00"],
     [local |-> "2020-06-30T23:59:59", offset |-> "+02:00"],
     [local |-> "2019-12-31T19:00:00", offset |-> "-05:00"],
     [local |-> "2020-01-01T07:00:00", offset |-> "+07:00"]}

Sources ==
    {[sourceOrg |-> "acme", repos |-> r, since |-> w] :
        r \in UNION {[1..n -> Organisations] : n \in 0..MaxOrgs}, w \in Watermarks}

InitQuery ==
    /\ dryRun = FALSE
    /\ fieldIDs = ResolvedFieldIDs
    /\ jira = <<>>
    /\ jcomments = <<>>
    /\ clock = 0
    /\ pc = "query"
    /\ ghIssues = <<>>
    /\ jiraIssues = <<>>
    /\ idx = 0
    /\ ret = "none"
    /\ calls = <<>>
    /\ runs = 0
    /\ updated = [id \in Ids |-> NoGhIssue]
    /\ ops = 0
    /\ sentMut = 0
    /\ sentRead = 0
    /\ lastCall = NoCall
    /\ did = NoDid
    /\ project = ProjectKey
    /\ pageCap = maxResults
    /\ listed = NoListed
    /\ rq = NoRq
    /\ meta = FullMeta
    /\ loadErr = "nil"
    /\ query \in {[NoQuery EXCEPT !.cfg = c] : c \in Sources}
    /\ NoLater

\* getGitHubIssues: buildQuery, then SearchIssues with the query built
CallGetGitHubIssues ==
    /\ pc = "query"
    /\ \E members \in MemberResults, search \in {"ok", "err"} :
          LET q == buildQuery(query.cfg, members)
          IN  /\ query' = [query EXCEPT !.members = members, !.kind = q.kind,
                                        !.terms = q.terms,
                                        !.search = IF q.kind = "panic" THEN "none" ELSE search]
              /\ pc' = IF q.kind = "panic" THEN "crashed" ELSE "query_done"
    /\ UNCHANGED <<dryRun, fieldIDs, jira, jcomments, clock, engineVarsButPc, clientVars, did,
                   project, pageCap, listed, rq, meta, loadErr, laterVars>>

NextQuery == CallGetGitHubIssues

SpecQuery == InitQuery /\ [][NextQuery]_vars

-----------------------------------------------------------------------------
(* Sync runs.                                                              *)

Init ==
    /\ dryRun \in BOOLEAN
    /\ fieldIDs = ResolvedFieldIDs
    /\ jira \in InitStores
    /\ jcomments = <<>>
    /\ clock = 0
    /\ pc = "idle"
    /\ ghIssues = <<>>
    /\ jiraIssues = <<>>
    /\ idx = 0
    /\ ret = "none"
    /\ calls = <<>>
    /\ runs = 0
    /\ updated = [id \in Ids |-> NoGhIssue]
    /\ ops = 0
    /\ sentMut = 0
    /\ sentRead = 0
    /\ lastCall = NoCall
    /\ did = NoDid
    /\ Loaded
    /\ pageCap \in {1, maxResults}

\* what GetMembers returns to a run: an error or the members of the organisation
RunMembers == {[kind |-> "err", users |-> <<>>], [kind |-> "ok", users |-> <<"alice", "bob">>]}

\* Sync up to the call of CompareIssues: buildQuery asks for the members of
\* the organisation (buildUserQuery panics if that fails), then SearchIssues
\* returns a batch or an error, which Sync returns
SyncStart ==
    /\ pc \in {"idle", "done", "crashed"}
    /\ runs < MaxRuns
    /\ runs' = runs + 1
    /\ clock' = clock + 1
    /\ calls' = <<>>
    /\ jiraIssues' = <<>>
    /\ idx' = 0
    /\ \E members \in RunMembers, search \in {"ok", "err"} :
          LET q == buildQuery(query.cfg, members)
          IN  /\ query' = [query EXCEPT !.members = members, !.kind = q.kind,
                                        !.terms = q.terms,
                                        !.search = IF q.kind = "panic" THEN "none" ELSE search]
              /\ IF q.kind = "panic"
                 THEN pc' = "crashed" /\ ret' = "none" /\ ghIssues' = <<>>
                 ELSE IF search = "err"
                 THEN pc' = "done" /\ ret' = "err" /\ ghIssues' = <<>>
                 ELSE pc' = "compare" /\ ret' = "none" /\ ghIssues' \in Batches
    /\ UNCHANGED <<dryRun, fieldIDs, jira, jcomments, updated, clientVars, did, project,
                   pageCap, listed, rq, meta, loadErr, laterVars>>

\* CompareIssuesList without the test for an empty batch
CompareIssuesListNoEmptyCheck ==
    /\ pc = "compare"
    /\ \E out \in Returns :
          LET r == ListIssues(jira, jcomments, BatchIDs(ghIssues), out)
          IN  /\ calls' = Append(calls, ListCall(BatchIDs(ghIssues), r.kind))
              /\ jiraIssues' = r.issues
              /\ idx' = 1
              /\ pc' = CASE r.kind = "ok" -> "loop"
                          [] r.kind = "err" -> "done"
                          [] OTHER -> "crashed"
              /\ ret' = IF r.kind = "err" THEN "err" ELSE "none"
    /\ UNCHANGED <<dryRun, fieldIDs, jira, jcomments, clock, ghIssues, runs, updated,
                   clientVars, did, otherVars>>

\* CompareIssues up to its loop: nothing to do for an empty batch, otherwise
\* one ListIssues call with the ids of the batch
CompareIssuesList ==
    /\ pc = "compare"
    /\ IF Len(ghIssues) = 0
       THEN pc' = "done" /\ ret' = "nil" /\ UNCHANGED <<calls, jiraIssues, idx>>
       ELSE \E out \in Returns :
              LET r == ListIssues(jira, jcomments, BatchIDs(ghIssues), out)
              IN  /\ calls' = Append(calls, ListCall(BatchIDs(ghIssues), r.kind))
                  /\ jiraIssues' = r.issues
                  /\ idx' = 1
                  /\ pc' = CASE r.kind = "ok" -> "loop"
                              [] r.kind = "err" -> "done"
                              [] OTHER -> "crashed"
                  /\ ret' = IF r.kind = "err" THEN "err" ELSE "none"
    /\ UNCHANGED <<dryRun, fieldIDs, jira, jcomments, clock, ghIssues, runs, updated,
                   clientVars, did, otherVars>>

\* CompareIssuesStep without the break of the inner loop: UpdateIssue is
\* called for every listed issue mapped to the source id, in list order
CompareIssuesStepNoBreak ==
    /\ pc = "loop"
    /\ idx <= Len(ghIssues)
    /\ \E oMut \in Returns, oGet \in Returns, com \in {"ok", "err"} :
          LET ghIssue == ghIssues[idx]
              m == FindMatch(jiraIssues, ghIssue, 1)
              n == IF m = 0 THEN 0 ELSE FindMatch(jiraIssues, ghIssue, m + 1)
              r == IF m # 0
                   THEN UpdateIssue(jira, jcomments, ghIssue, jiraIssues[m], idx, clock,
                                    oMut, oGet, com)
                   ELSE CreateIssue(jira, jcomments, ghIssue, idx, clock, oMut, oGet, com)
              entry == IF m # 0 THEN Call("UpdateIssue", idx, jiraIssues[m].Key, r.res)
                       ELSE Call("CreateIssue", idx, "", r.res)
              again == n # 0 /\ r.res # "panic"
              r2 == IF again
                    THEN UpdateIssue(r.store, jcomments, ghIssue, jiraIssues[n], idx, clock,
                                     oMut, oGet, com)
                    ELSE [r EXCEPT !.calls = <<>>]
              more == IF again
                      THEN <<Call("UpdateIssue", idx, jiraIssues[n].Key, r2.res)>>
                      ELSE <<>>
          IN  /\ jira' = r2.store
              /\ calls' = calls \o <<entry>> \o r.calls \o more \o r2.calls
              /\ pc' = IF r2.res = "panic" THEN "crashed" ELSE "loop"
              /\ updated' = IF m # 0 /\ r.wrote /\ ~dryRun
                            THEN [updated EXCEPT ![ghIssue.ID] = ghIssue] ELSE updated
    /\ idx' = idx + 1
    /\ UNCHANGED <<dryRun, fieldIDs, jcomments, clock, ghIssues, jiraIssues, ret, runs,
                   clientVars, did, otherVars>>

\* one iteration of the loop of CompareIssues: the source issue at idx is
\* matched against jiraIssues and handed to UpdateIssue or CreateIssue; an
\* error they return is logged
CompareIssuesStep ==
    /\ pc = "loop"
    /\ idx <= Len(ghIssues)
    /\ \E oMut \in Returns, oGet \in Returns, com \in {"ok", "err"} :
          LET ghIssue == ghIssues[idx]
              m == FindMatch(jiraIssues, ghIssue, 1)
              r == IF m # 0
                   THEN UpdateIssue(jira, jcomments, ghIssue, jiraIssues[m], idx, clock,
                                    oMut, oGet, com)
                   ELSE CreateIssue(jira, jcomments, ghIssue, idx, clock, oMut, oGet, com)
              entry == IF m # 0 THEN Call("UpdateIssue", idx, jiraIssues[m].Key, r.res)
                       ELSE Call("CreateIssue", idx, "", r.res)
          IN  /\ jira' = r.store
              /\ calls' = calls \o <<entry>> \o r.calls
              /\ pc' = IF r.res = "panic" THEN "crashed" ELSE "loop"
              /\ updated' = IF m # 0 /\ r.wrote /\ ~dryRun
                            THEN [updated EXCEPT ![ghIssue.ID] = ghIssue] ELSE updated
    /\ idx' = idx + 1
    /\ UNCHANGED <<dryRun, fieldIDs, jcomments, clock, ghIssues, jiraIssues, ret, runs,
                   clientVars, did, otherVars>>

\* the loop is over: CompareIssues returns nil, and so does Sync
CompareIssuesReturn ==
    /\ pc = "loop"
    /\ idx > Len(ghIssues)
    /\ pc' = "done"
    /\ ret' = "nil"
    /\ UNCHANGED <<dryRun, fieldIDs, jira, jcomments, clock, ghIssues, jiraIssues, idx,
                   calls, runs, updated, clientVars, did, otherVars>>

Next == SyncStart \/ CompareIssuesList \/ CompareIssuesStep \/ CompareIssuesReturn

Spec == Init /\ [][Next]_vars

\* a project in which two issues carry the id of GitHub issue 1, as two
\* runs at the same time, or a run that listed a short page, leave it
DuplicateStores == {<<Mirror(1, BaseIssue(1)), Mirror(2, BaseIssue(1))>>}

\* Sync runs that start from any project of Init or from one with two
\* issues mapped to one source id
InitDuplicates ==
    /\ dryRun \in BOOLEAN
    /\ fieldIDs = ResolvedFieldIDs
    /\ jira \in InitStores \cup DuplicateStores
    /\ jcomments = <<>>
    /\ clock = 0
    /\ pc = "idle"
    /\ ghIssues = <<>>
    /\ jiraIssues = <<>>
    /\ idx = 0
    /\ ret = "none"
    /\ calls = <<>>
    /\ runs = 0
    /\ updated = [id \in Ids |-> NoGhIssue]
    /\ ops = 0
    /\ sentMut = 0
    /\ sentRead = 0
    /\ lastCall = NoCall
    /\ did = NoDid
    /\ Loaded
    /\ pageCap \in {1, maxResults}

SpecDuplicates == InitDuplicates /\ [][Next]_vars

-----------------------------------------------------------------------------
(* The engine with each of the two clients: one source issue is taken      *)
(* through CompareIssues with the dry-run client injected, then, against   *)
(* the same project and with the same answers of the network, with the     *)
(* real client injected.                                                   *)

\* the decision of CompareIssues for g and the calls of the function chosen
Handed(decision, r) ==
    [decision |-> decision, ops |-> [k \in 1..Len(r.calls) |-> r.calls[k].op],
     res |-> r.res, store |-> r.store]

\* the loop body of CompareIssues for g, given the mirrored issues listed
CompareMatched(g, listedIssues, m, oMut, oGet, com) ==
    IF m # 0
    THEN Handed("UpdateIssue",
                UpdateIssue(jira, jcomments, g, listedIssues[m], 1, clock, oMut, oGet, com))
    ELSE Handed("CreateIssue", CreateIssue(jira, jcomments, g, 1, clock, oMut, oGet, com))

CompareListed(g, listedIssues, oMut, oGet, com) ==
    CompareMatched(g, listedIssues, FindMatch(listedIssues, g, 1), oMut, oGet, com)

\* CompareIssues for the batch of the one source issue g, its ListIssues
\* call answered: the function the issue is handed to, the calls made for it
\* and how they end
CompareOne(g, oMut, oGet, com) ==
    CompareListed(g, ListIssues(jira, jcomments, <<g.ID>>, [attempts |-> 1, last |-> "ok"]).issues,
                  oMut, oGet, com)

\* what is kept of CompareOne
Flow(e) == [decision |-> e.decision, ops |-> e.ops, res |-> e.res]

InitModes ==
    /\ dryRun = TRUE
    /\ fieldIDs = ResolvedFieldIDs
    /\ jira \in InitStores
    /\ jcomments = <<>>
    /\ clock = 1
    /\ pc = "modes"
    /\ ghIssues = <<>>
    /\ jiraIssues = <<>>
    /\ idx = 0
    /\ ret = "none"
    /\ calls = <<>>
    /\ runs = 0
    /\ updated = [id \in Ids |-> NoGhIssue]
    /\ ops = 0
    /\ sentMut = 0
    /\ sentRead = 0
    /\ lastCall = NoCall
    /\ did = NoDid
    /\ Loaded
    /\ pageCap = maxResults

\* the run with the dry-run client; the real client is injected next
ModesPreview ==
    /\ pc = "modes"
    /\ \E g \in GhIssueSet, oMut \in Returns, oGet \in Returns, com \in {"ok", "err"} :
          LET e == CompareOne(g, oMut, oGet, com)
          IN  /\ modes' = [modes EXCEPT !.g = g, !.oMut = oMut, !.oGet = oGet, !.com = com,
                                        !.preview = Flow(e)]
              /\ jira' = e.store
    /\ dryRun' = FALSE
    /\ pc' = "modes_live"
    /\ UNCHANGED <<fieldIDs, jcomments, clock, engineVarsButPc, clientVars, did, project,
                   pageCap, listed, rq, meta, loadErr, query, dryListed, overlap,
                   lastVars>>

\* the run with the real client, for the same source issue and answers
ModesLive ==
    /\ pc = "modes_live"
    /\ LET e == CompareOne(modes.g, modes.oMut, modes.oGet, modes.com)
       IN  /\ modes' = [modes EXCEPT !.live = Flow(e)]
           /\ jira' = e.store
    /\ pc' = "modes_done"
    /\ UNCHANGED <<dryRun, fieldIDs, jcomments, clock, engineVarsButPc, clientVars, did,
                   project, pageCap, listed, rq, meta, loadErr, query, dryListed, overlap,
                   lastVars>>

NextModes == ModesPreview \/ ModesLive

SpecModes == InitModes /\ [][NextModes]_vars

-----------------------------------------------------------------------------
(* Two Sync runs at the same time against one project: Sync takes no lock, *)
(* so the steps of the runs interleave freely. Each run has its own batch, *)
(* its own list of mirrored issues and its own position; the project is    *)
(* shared.                                                                 *)

Procs == {1, 2}

\* what SearchIssues returns to a run: base issues with distinct ids
OverlapBatches == {b \in Batches : \A i \in 1..Len(b) : b[i] = BaseIssue(b[i].ID)}

InitOverlap ==
    /\ dryRun = FALSE
    /\ fieldIDs = ResolvedFieldIDs
    /\ jira \in InitStores
    /\ jcomments = <<>>
    /\ clock = 1
    /\ pc = "overlap"
    /\ ghIssues = <<>>
    /\ jiraIssues = <<>>
    /\ idx = 0
    /\ ret = "none"
    /\ calls = <<>>
    /\ runs = 0
    /\ updated = [id \in Ids |-> NoGhIssue]
    /\ ops = 0
    /\ sentMut = 0
    /\ sentRead = 0
    /\ lastCall = NoCall
    /\ did = NoDid
    /\ Loaded
    /\ pageCap = maxResults

\* Sync of run p up to CompareIssues: nothing is tested or taken before the
\* search
OverlapStart(p) ==
    /\ pc = "overlap"
    /\ overlap[p].pc = "idle"
    /\ \E b \in OverlapBatches :
          overlap' = [overlap EXCEPT ![p].pc = "compare", ![p].ghIssues = b]
    /\ UNCHANGED <<dryRun, fieldIDs, jira, jcomments, clock, engineVars, clientVars, did,
                   project, pageCap, listed, rq, meta, loadErr, query, modes, dryListed,
                   lastVars>>

\* OverlapList that waits until the other run is over
OverlapListLocked(p) ==
    /\ pc = "overlap"
    /\ overlap[p].pc = "compare"
    /\ \A q \in Procs \ {p} : overlap[q].pc \in {"idle", "done", "crashed"}
    /\ IF Len(overlap[p].ghIssues) = 0
       THEN overlap' = [overlap EXCEPT ![p].pc = "done", ![p].ret = "nil"]
       ELSE \E out \in Returns :
              LET r == ListIssues(jira, jcomments, BatchIDs(overlap[p].ghIssues), out)
              IN  overlap' = [overlap EXCEPT
                                ![p].jiraIssues = r.issues,
                                ![p].idx = 1,
                                ![p].pc = CASE r.kind = "ok" -> "loop"
                                            [] r.kind = "err" -> "done"
                                            [] OTHER -> "crashed",
                                ![p].ret = IF r.kind = "err" THEN "err" ELSE "none"]
    /\ UNCHANGED <<dryRun, fieldIDs, jira, jcomments, clock, engineVars, clientVars, did,
                   project, pageCap, listed, rq, meta, loadErr, query, modes, dryListed,
                   lastVars>>

\* CompareIssues of run p up to its loop
OverlapList(p) ==
    /\ pc = "overlap"
    /\ overlap[p].pc = "compare"
    /\ IF Len(overlap[p].ghIssues) = 0
       THEN overlap' = [overlap EXCEPT ![p].pc = "done", ![p].ret = "nil"]
       ELSE \E out \in Returns :
              LET r == ListIssues(jira, jcomments, BatchIDs(overlap[p].ghIssues), out)
              IN  overlap' = [overlap EXCEPT
                                ![p].jiraIssues = r.issues,
                                ![p].idx = 1,
                                ![p].pc = CASE r.kind = "ok" -> "loop"
                                            [] r.kind = "err" -> "done"
                                            [] OTHER -> "crashed",
                                ![p].ret = IF r.kind = "err" THEN "err" ELSE "none"]
    /\ UNCHANGED <<dryRun, fieldIDs, jira, jcomments, clock, engineVars, clientVars, did,
                   project, pageCap, listed, rq, meta, loadErr, query, modes, dryListed,
                   lastVars>>

\* an iteration of the loop of CompareIssues in run p up to the return of
\* its first request: the match is looked for in the list the run fetched,
\* however old; UpdateIssue sends its PUT when DidIssueChange says so,
\* CreateIssue its POST; on an error the engine function returns and the
\* loop goes on, else the key to fetch is kept
OverlapSubmit(p) ==
    /\ pc = "overlap"
    /\ overlap[p].pc = "loop"
    /\ overlap[p].idx <= Len(overlap[p].ghIssues)
    /\ \E oMut \in Returns :
          LET o == overlap[p]
              ghIssue == o.ghIssues[o.idx]
              m == FindMatch(o.jiraIssues, ghIssue, 1)
              sends == m = 0 \/ DidIssueChange(ghIssue, o.jiraIssues[m])
              u == IF m = 0
                   THEN ClientCreateIssue(jira, jcomments, CreateRequest(ghIssue, clock), oMut)
                   ELSE IF sends
                   THEN ClientUpdateIssue(jira, jcomments,
                                          UpdateRequest(ghIssue, o.jiraIssues[m], clock), oMut)
                   ELSE Result(jira, jcomments)
              entry == [op |-> IF m # 0 THEN "UpdateIssue" ELSE "CreateIssue",
                        id |-> ghIssue.ID, res |-> u.kind]
          IN  /\ jira' = u.store
              /\ overlap' = IF u.kind = "ok"
                            THEN [overlap EXCEPT
                                    ![p].pc = "get",
                                    ![p].key = IF m = 0 THEN u.issue.Key
                                               ELSE o.jiraIssues[m].Key]
                            ELSE [overlap EXCEPT
                                    ![p].calls = Append(o.calls, entry),
                                    ![p].idx = o.idx + 1,
                                    ![p].pc = IF u.kind = "panic" THEN "crashed" ELSE "loop"]
    /\ UNCHANGED <<dryRun, fieldIDs, jcomments, clock, engineVars, clientVars, did,
                   project, pageCap, listed, rq, meta, loadErr, query, modes, dryListed,
                   lastVars>>

\* the jClient.GetIssue request of UpdateIssue or CreateIssue in run p, sent
\* after the first request has returned: other runs' requests can be served
\* in between
OverlapGet(p) ==
    /\ pc = "overlap"
    /\ overlap[p].pc = "get"
    /\ \E oGet \in Returns :
          LET o == overlap[p]
              ghIssue == o.ghIssues[o.idx]
              m == FindMatch(o.jiraIssues, ghIssue, 1)
              g == GetIssue(jira, jcomments, o.key, oGet)
              entry == [op |-> IF m # 0 THEN "UpdateIssue" ELSE "CreateIssue",
                        id |-> ghIssue.ID, res |-> g.kind]
          IN  /\ jira' = g.store
              /\ overlap' = IF g.kind = "ok"
                            THEN [overlap EXCEPT ![p].pc = "comments"]
                            ELSE [overlap EXCEPT
                                    ![p].calls = Append(o.calls, entry),
                                    ![p].idx = o.idx + 1,
                                    ![p].key = "",
                                    ![p].pc = IF g.kind = "panic" THEN "crashed" ELSE "loop"]
    /\ UNCHANGED <<dryRun, fieldIDs, jcomments, clock, engineVars, clientVars, did,
                   project, pageCap, listed, rq, meta, loadErr, query, modes, dryListed,
                   lastVars>>

\* CompareComments of the iteration of run p, and the return of UpdateIssue
\* or CreateIssue to the loop
OverlapComments(p) ==
    /\ pc = "overlap"
    /\ overlap[p].pc = "comments"
    /\ \E com \in {"ok", "err"} :
          LET o == overlap[p]
              ghIssue == o.ghIssues[o.idx]
              m == FindMatch(o.jiraIssues, ghIssue, 1)
              c == CompareComments(jira, jcomments, ghIssue, ZeroIssue, com)
              entry == [op |-> IF m # 0 THEN "UpdateIssue" ELSE "CreateIssue",
                        id |-> ghIssue.ID, res |-> c.kind]
          IN  /\ jira' = c.store
              /\ overlap' = [overlap EXCEPT
                                ![p].calls = Append(o.calls, entry),
                                ![p].idx = o.idx + 1,
                                ![p].key = "",
                                ![p].pc = "loop"]
    /\ UNCHANGED <<dryRun, fieldIDs, jcomments, clock, engineVars, clientVars, did,
                   project, pageCap, listed, rq, meta, loadErr, query, modes, dryListed,
                   lastVars>>

\* the loop of run p is over: CompareIssues returns nil, and so does Sync
OverlapReturn(p) ==
    /\ pc = "overlap"
    /\ overlap[p].pc = "loop"
    /\ overlap[p].idx > Len(overlap[p].ghIssues)
    /\ overlap' = [overlap EXCEPT ![p].pc = "done", ![p].ret = "nil"]
    /\ UNCHANGED <<dryRun, fieldIDs, jira, jcomments, clock, engineVars, clientVars, did,
                   project, pageCap, listed, rq, meta, loadErr, query, modes, dryListed,
                   lastVars>>

NextOverlap ==
    \E p \in Procs :
        \/ OverlapStart(p)
        \/ OverlapList(p)
        \/ OverlapSubmit(p)
        \/ OverlapGet(p)
        \/ OverlapComments(p)
        \/ OverlapReturn(p)

SpecOverlap == InitOverlap /\ [][NextOverlap]_vars

-----------------------------------------------------------------------------
(* Direct use of the JIRAClient: any sequence of operations, with any      *)
(* arguments, on the client NewJIRAClient built.                           *)

\* a GitHub user without a display name
NamelessUser == [ok |-> TRUE, Login |-> "bob", Name |-> "", HTMLURL |-> "https://gh/bob"]

\* what GetUser can return: an error, or a user with or without a name
GhUsers ==
    {[ok |-> FALSE, Login |-> "", Name |-> "", HTMLURL |-> ""],
     [ok |-> TRUE, Login |-> "alice", Name |-> "Alice A", HTMLURL |-> "https://gh/alice"],
     NamelessUser}

\* a number of two-byte characters that is under maxBodyLength while their
\* bytes are over it
WideChars == (maxBodyLength \div 4) * 3

\* the comment c with its body padded so that the body composed for user u
\* is exactly maxBodyLength bytes long
AtLimit(c, u) == [c EXCEPT !.Body.pad = maxBodyLength - TextLen(realCommentBody(c, u))]

\* the GitHub comments of the model: a short one and one whose body alone is
\* as long as maxBodyLength
GhComments ==
    {[ID |-> 7, HTMLURL |-> "https://gh/c/7", Login |-> "alice", CreatedAt |-> 1,
      Body |-> [head |-> "LGTM", pad |-> 0, width |-> 1, torn |-> 0]],
     [ID |-> 8, HTMLURL |-> "https://gh/c/8", Login |-> "bob", CreatedAt |-> 2,
      Body |-> [head |-> "long", pad |-> maxBodyLength, width |-> 1, torn |-> 0]]}

\* comments around the limit: one of two-byte characters, and one whose
\* composed body is exactly at the limit for the nameless user
LimitComments ==
    {[ID |-> 9, HTMLURL |-> "https://gh/c/9", Login |-> "bob", CreatedAt |-> 2,
      Body |-> [head |-> "wide", pad |-> WideChars, width |-> 2, torn |-> 0]],
     AtLimit([ID |-> 6, HTMLURL |-> "https://gh/c/6", Login |-> "bob", CreatedAt |-> 2,
              Body |-> [head |-> "full", pad |-> 0, width |-> 1, torn |-> 0]],
             NamelessUser)}

\* the comments handed to CreateComment and UpdateComment: the study of the
\* comment operations alone adds those around the limit
CommentArgs == IF pc = "comment" THEN GhComments \cup LimitComments ELSE GhComments

\* the JIRA issues handed to a client operation: those of the project and one it does not hold
TargetArgs == {jira[k] : k \in 1..Len(jira)} \cup {Mirror(9, BaseIssue(2))}

InitClient ==
    /\ dryRun \in BOOLEAN
    /\ fieldIDs = ResolvedFieldIDs
    /\ jira \in InitStores
    /\ jcomments = <<>>
    /\ clock = 1
    /\ pc = "client"
    /\ ghIssues = <<>>
    /\ jiraIssues = <<>>
    /\ idx = 0
    /\ ret = "none"
    /\ calls = <<>>
    /\ runs = 0
    /\ updated = [id \in Ids |-> NoGhIssue]
    /\ ops = 0
    /\ sentMut = 0
    /\ sentRead = 0
    /\ lastCall = NoCall
    /\ did = NoDid
    /\ Loaded
    /\ pageCap \in {1, maxResults}

\* the caller's state after a client operation returned r (a panic ends the
\* process); the study of the start of the program follows NewJIRAClient by
\* one operation
Returned(r, op, userOk, composed, id, out, mutating) ==
    /\ jira' = r.store
    /\ jcomments' = r.comments
    /\ sentMut' = sentMut + r.sentMut
    /\ sentRead' = sentRead + r.sentRead
    /\ ops' = IF mutating THEN ops + 1 ELSE ops
    /\ lastCall' = [n |-> lastCall.n + 1, op |-> op, userOk |-> userOk,
                    bodyLen |-> TextLen(composed), attempts |-> out.attempts,
                    kind |-> r.kind, sent |-> r.sentMut, last |-> out.last, err |-> r.err,
                    sentRead |-> r.sentRead, comment |-> r.comment,
                    composed |-> composed, id |-> id]
    /\ pc' = IF r.kind = "panic" THEN "crashed"
             ELSE IF pc = "configured" THEN "ran" ELSE pc
    /\ UNCHANGED <<dryRun, fieldIDs, clock, ghIssues, jiraIssues, idx, ret, calls, runs,
                   updated, did, otherVars>>

CallListIssues ==
    /\ pc \in {"client", "configured"} /\ lastCall.n < MaxCalls
    /\ \E ids \in {<<1>>, <<2, 1>>}, out \in Outcomes :
          Returned(ListIssues(jira, jcomments, ids, out), "ListIssues", TRUE, ZeroText, "", out, FALSE)

CallGetIssue ==
    /\ pc = "client" /\ lastCall.n < MaxCalls
    /\ \E j \in TargetArgs, out \in Outcomes :
          Returned(GetIssue(jira, jcomments, j.Key, out), "GetIssue", TRUE, ZeroText, "", out, FALSE)

CallCreateIssue ==
    /\ pc \in {"client", "configured"} /\ lastCall.n < MaxCalls
    /\ \E id \in Ids, out \in Outcomes :
          Returned(ClientCreateIssue(jira, jcomments, CreateRequest(BaseIssue(id), clock), out),
                   "CreateIssue", TRUE, ZeroText, "", out, TRUE)

CallUpdateIssue ==
    /\ pc \in {"client", "configured"} /\ lastCall.n < MaxCalls
    /\ \E j \in TargetArgs, out \in Outcomes :
          Returned(ClientUpdateIssue(jira, jcomments,
                       UpdateRequest([BaseIssue(1) EXCEPT !.Title = "t2"], j, clock), out),
                   "UpdateIssue", TRUE, ZeroText, "", out, TRUE)

CallCreateComment ==
    /\ pc \in {"client", "comment"} /\ lastCall.n < MaxCalls
    /\ \E j \in TargetArgs, c \in CommentArgs, u \in GhUsers, out \in Outcomes :
          Returned(CreateComment(jira, jcomments, j, c, u, out), "CreateComment", u.ok,
                   realCommentBody(c, u), "", out, TRUE)

CallUpdateComment ==
    /\ pc \in {"client", "comment"} /\ lastCall.n < MaxCalls
    /\ \E j \in TargetArgs, id \in {"1", "2"}, c \in CommentArgs, u \in GhUsers,
          out \in Outcomes :
          Returned(UpdateComment(jira, jcomments, j, id, c, u, out), "UpdateComment", u.ok,
                   realCommentBody(c, u), id, out, TRUE)

NextClient ==
    \/ CallListIssues \/ CallGetIssue \/ CallCreateIssue \/ CallUpdateIssue
    \/ CallCreateComment \/ CallUpdateComment

SpecClient == InitClient /\ [][NextClient]_vars

\* the comment operations of the real client alone, with the comments around the limit
InitComment ==
    /\ dryRun = FALSE
    /\ fieldIDs = ResolvedFieldIDs
    /\ jira \in InitStores
    /\ jcomments = <<>>
    /\ clock = 1
    /\ pc = "comment"
    /\ ghIssues = <<>>
    /\ jiraIssues = <<>>
    /\ idx = 0
    /\ ret = "none"
    /\ calls = <<>>
    /\ runs = 0
    /\ updated = [id \in Ids |-> NoGhIssue]
    /\ ops = 0
    /\ sentMut = 0
    /\ sentRead = 0
    /\ lastCall = NoCall
    /\ did = NoDid
    /\ Loaded
    /\ pageCap = maxResults

NextComment == CallCreateComment \/ CallUpdateComment

SpecComment == InitComment /\ [][NextComment]_vars

-----------------------------------------------------------------------------
(* DidIssueChange on its own: any GitHub issue against any JIRA issue.     *)

\* the GitHub issues DidIssueChange is given
DidGhIssues ==
    {GhIssue(1, t, b, st, l, lb) :
        t \in {"t1", "t2"}, b \in {"b1", "b2"}, st \in {"open", "closed"},
        l \in {"alice", "bob"}, lb \in {<<>>, <<"bug">>, <<"bug", "ui">>}}

\* f with v at key, or without the key if v says so
WithField(f, key, v) == IF v.t = "absent" THEN f ELSE Put(f, key, v)

\* stands for a field the issue does not have
Absent == [t |-> "absent", s |-> "", n |-> 0]

\* the JIRA issues DidIssueChange is given: each mirrored field holds a
\* string, holds something that is no string, or is absent
DidJiraIssues ==
    {[Key |-> "PROJ-1", ID |-> "10001",
      Fields |-> [Summary |-> sm, Description |-> ds, Type |-> "Task", Project |-> ProjectKey,
                  Unknowns |->
                      WithField(WithField(WithField(
                          Put(EmptyMap, "customfield_10001", Num(1)),
                          "customfield_10004", st), "customfield_10005", rp),
                          "customfield_10003", lb)]] :
        sm \in {"t1", "t2"}, ds \in {"b1", "b2"},
        st \in {Str("open"), Str("closed"), Num(1), Absent},
        rp \in {Str("alice"), Str("bob"), Absent},
        lb \in {Str(""), Str("bug"), Str("bug,ui"), Null, Absent}}

InitDid ==
    /\ dryRun = FALSE
    /\ fieldIDs = ResolvedFieldIDs
    /\ jira = <<>>
    /\ jcomments = <<>>
    /\ clock = 0
    /\ pc = "did"
    /\ ghIssues = <<>>
    /\ jiraIssues = <<>>
    /\ idx = 0
    /\ ret = "none"
    /\ calls = <<>>
    /\ runs = 0
    /\ updated = [id \in Ids |-> NoGhIssue]
    /\ ops = 0
    /\ sentMut = 0
    /\ sentRead = 0
    /\ lastCall = NoCall
    /\ did \in [gh : DidGhIssues, j : DidJiraIssues, result : {FALSE}]
    /\ Loaded
    /\ pageCap = maxResults

EvalDidIssueChange ==
    /\ pc = "did"
    /\ pc' = "did_done"
    /\ did' = [did EXCEPT !.result = DidIssueChange(did.gh, did.j)]
    /\ UNCHANGED <<dryRun, fieldIDs, jira, jcomments, clock, ghIssues, jiraIssues, idx, ret,
                   calls, runs, updated, clientVars, otherVars>>

NextDid == EvalDidIssueChange

SpecDid == InitDid /\ [][NextDid]_vars

-----------------------------------------------------------------------------
(* ListIssues of the real client on its own: projects of up to three pages *)
(* of issues, short and long lists of ids, servers with and without a page *)
(* cap of their own.                                                       *)

\* the k-th issue of a large project: mapped to GitHub id k, except that some
\* issues lack the GitHub ID field, hold null or a text in it, or belong to
\* another project
LargeIssue(k) ==
    LET whole == Mirror(k, BaseIssue(k))
        u == whole.Fields.Unknowns
    IN  CASE k % 25 = 0 -> [whole EXCEPT !.Fields.Project = "OTHER"]
          [] k % 10 = 4 -> [whole EXCEPT !.Fields.Unknowns = Without(u, "customfield_10001")]
          [] k % 10 = 6 -> [whole EXCEPT !.Fields.Unknowns = Put(u, "customfield_10001", Null)]
          [] k % 10 = 8 -> [whole EXCEPT !.Fields.Unknowns = Put(u, "customfield_10001", Str("n/a"))]
          [] OTHER -> whole

LargeStore(n) == [k \in 1..n |-> LargeIssue(k)]

\* numbers of issues on the server: none, a few, a page, just over a page,
\* over two pages
StoreSizes == {0, 3, 9, maxResults, maxResults + 1, 2 * maxResults + 20}

\* the ids handed to ListIssues: short lists, a list one short of
\* maxJQLIssueLength, one of that length and one longer
IdLists ==
    {<<7>>, <<5, 7, 9>>, <<119, 3, 60, 4>>,
     [i \in 1..(maxJQLIssueLength - 1) |-> i],
     [i \in 1..maxJQLIssueLength |-> i],
     [i \in 1..(maxJQLIssueLength + 1) |-> 19 + i]}

\* page caps of the server: one issue, less than the page asked for, none below it
PageCaps == {1, maxResults - 30, maxResults}

InitList ==
    /\ dryRun = FALSE
    /\ fieldIDs = ResolvedFieldIDs
    /\ jira \in {LargeStore(n) : n \in StoreSizes}
    /\ jcomments = <<>>
    /\ clock = 0
    /\ pc = "list"
    /\ ghIssues = <<>>
    /\ jiraIssues = <<>>
    /\ idx = 0
    /\ ret = "none"
    /\ calls = <<>>
    /\ runs = 0
    /\ updated = [id \in Ids |-> NoGhIssue]
    /\ ops = 0
    /\ sentMut = 0
    /\ sentRead = 0
    /\ lastCall = NoCall
    /\ did = NoDid
    /\ project = ProjectKey
    /\ pageCap \in PageCaps
    /\ listed \in [ids : IdLists, kind : {""}, fetched : {<<>>}, issues : {<<>>},
                    sentRead : {0}]
    /\ rq = NoRq
    /\ meta = FullMeta
    /\ loadErr = "nil"
    /\ query = NoQuery
    /\ NoLater

\* one call of realJIRAClient.ListIssues
CallRealListIssues ==
    /\ pc = "list"
    /\ \E out \in Outcomes :
          LET f == getIssues(jira, jcomments, ListJQL(listed.ids), out)
              r == realListIssues(jira, jcomments, listed.ids, out)
          IN  /\ listed' = [listed EXCEPT !.kind = r.kind, !.fetched = f.issues,
                                          !.issues = r.issues, !.sentRead = r.sentRead]
              /\ pc' = IF r.kind = "panic" THEN "crashed" ELSE "list_done"
    /\ UNCHANGED <<dryRun, fieldIDs, jira, jcomments, clock, ghIssues, jiraIssues, idx, ret,
                   calls, runs, updated, clientVars, did, project, pageCap, rq, meta, loadErr,
                   query, laterVars>>

NextList == CallRealListIssues

SpecList == InitList /\ [][NextList]_vars

\* one call of dryrunJIRAClient.ListIssues with the ids the real client was
\* called with, against the same project
CallDryrunListIssues ==
    /\ pc = "list_done"
    /\ \E out \in Outcomes :
          LET r == dryrunListIssues(jira, jcomments, listed.ids, out)
          IN  /\ dryListed' = [kind |-> r.kind, issues |-> r.issues]
              /\ pc' = IF r.kind = "panic" THEN "crashed" ELSE "list_both"
    /\ UNCHANGED <<dryRun, fieldIDs, jira, jcomments, clock, ghIssues, jiraIssues, idx, ret,
                   calls, runs, updated, clientVars, did, project, pageCap, listed, rq, meta,
                   loadErr, query, modes, overlap, lastVars>>

NextListBoth == CallRealListIssues \/ CallDryrunListIssues

SpecListBoth == InitList /\ [][NextListBoth]_vars

\* getIssues page by page: every iteration of its loop is a step, and every
\* page request has an outcome of its own
InitPages ==
    /\ dryRun = FALSE
    /\ fieldIDs = ResolvedFieldIDs
    /\ jira \in {LargeStore(n) : n \in StoreSizes}
    /\ jcomments = <<>>
    /\ clock = 0
    /\ pc = "pages"
    /\ ghIssues = <<>>
    /\ jiraIssues = <<>>
    /\ idx = 0
    /\ ret = "none"
    /\ calls = <<>>
    /\ runs = 0
    /\ updated = [id \in Ids |-> NoGhIssue]
    /\ ops = 0
    /\ sentMut = 0
    /\ sentRead = 0
    /\ lastCall = NoCall
    /\ did = NoDid
    /\ project = ProjectKey
    /\ pageCap \in PageCaps
    /\ listed = NoListed
    /\ rq = NoRq
    /\ meta = FullMeta
    /\ loadErr = "nil"
    /\ query = NoQuery
    /\ modes = NoModes
    /\ dryListed = NoDryListed
    /\ overlap = NoOverlap
    /\ pages \in {[NoPages EXCEPT !.pc = "loop", !.ids = ids] : ids \in IdLists}
    /\ conf = NoConf

\* one iteration of the loop of getIssues: the request of the page; on an
\* error "return nil, getErrorBody(j.cfg, res)"; otherwise totalResults is
\* taken from the response and the issues of the page are appended
getIssuesIteration(out) ==
    LET r == request(out)
        e == getErrorBody(r.res)
        p == ServerSearch(jira, ListJQL(pages.ids), maxResults * pages.page, maxResults)
        asked == [pages EXCEPT !.sent = Append(@, maxResults * pages.page)]
    IN  IF r.err
        THEN [asked EXCEPT !.failed = TRUE,
                           !.issues = <<>>,
                           !.pc = IF e.kind = "panic" THEN "crashed" ELSE "returned",
                           !.kind = e.kind]
        ELSE [asked EXCEPT !.totalResults = p.total,
                           !.issues = @ \o p.issues,
                           !.page = @ + 1]

\* the loop condition holds: the page is requested
GetIssuesPage ==
    /\ pc = "pages"
    /\ pages.pc = "loop"
    /\ pages.page * maxResults < pages.totalResults
    /\ \E out \in Returns :
          /\ pages' = getIssuesIteration(out)
          /\ pc' = IF pages'.pc = "crashed" THEN "crashed" ELSE pc
    /\ UNCHANGED <<dryRun, fieldIDs, jira, jcomments, clock, engineVarsButPc, clientVars, did,
                   project, pageCap, listed, rq, meta, loadErr, query, modes, dryListed,
                   overlap, conf>>

\* the loop condition fails: return issues, nil
GetIssuesReturn ==
    /\ pc = "pages"
    /\ pages.pc = "loop"
    /\ ~(pages.page * maxResults < pages.totalResults)
    /\ pages' = [pages EXCEPT !.pc = "returned", !.kind = "ok"]
    /\ UNCHANGED <<dryRun, fieldIDs, jira, jcomments, clock, engineVars, clientVars, did,
                   project, pageCap, listed, rq, meta, loadErr, query, modes, dryListed,
                   overlap, conf>>

NextPages == GetIssuesPage \/ GetIssuesReturn

SpecPages == InitPages /\ [][NextPages]_vars

-----------------------------------------------------------------------------
(* request, call by call: backoff.RetryNotify calls the operation, asks    *)
(* the backoff whether to go on, sleeps and calls again.                   *)

\* what the n-th call of f returns: a result and a response, or an error with
\* a response or without one; a value that is not nil is the n-th call's own
FReturn(n, kind) ==
    [ret |-> IF kind = "ok" THEN [n |-> n, kind |-> "value"] ELSE NilValue,
     res |-> IF kind = "nores" THEN NilValue ELSE [n |-> n, kind |-> kind],
     err |-> IF kind = "ok" THEN NilValue ELSE [n |-> n, kind |-> "error"]]

\* op with the response of the first call of f kept
opKeepFirst(r, v) ==
    [r EXCEPT !.ret = v.ret,
              !.res = IF r.attempts = 0 THEN v.res ELSE @,
              !.err = v.err]

\* op: ret, res, err = f(); return err
op(r, v) == [r EXCEPT !.ret = v.ret, !.res = v.res, !.err = v.err]

\* NextBackOff stopping only for a positive MaxElapsedTime
NextBackOffStopsIfPositive(timeout, elapsed) == timeout > 0 /\ elapsed > timeout

\* ExponentialBackOff.NextBackOff returns Stop: MaxElapsedTime is not zero and
\* more time than that has elapsed
NextBackOffStops(timeout, elapsed) == timeout # 0 /\ elapsed > timeout

\* values of cfg.GetTimeout(), in ticks: negative, zero, positive
Timeouts == {0 - 1, 0, 1, 2}

InitRequest ==
    /\ dryRun \in BOOLEAN
    /\ fieldIDs = ResolvedFieldIDs
    /\ jira = <<>>
    /\ jcomments = <<>>
    /\ clock = 0
    /\ pc = "request"
    /\ ghIssues = <<>>
    /\ jiraIssues = <<>>
    /\ idx = 0
    /\ ret = "none"
    /\ calls = <<>>
    /\ runs = 0
    /\ updated = [id \in Ids |-> NoGhIssue]
    /\ ops = 0
    /\ sentMut = 0
    /\ sentRead = 0
    /\ lastCall = NoCall
    /\ did = NoDid
    /\ project = ProjectKey
    /\ pageCap = maxResults
    /\ listed = NoListed
    /\ rq \in [pc : {"call"}, timeout : Timeouts, always : BOOLEAN, elapsed : {0},
                attempts : {0}, ret : {NilValue}, res : {NilValue}, err : {NilValue},
                lastKind : {""}, last : {NilReturn}, out : {NilReturn}]
    /\ meta = FullMeta
    /\ loadErr = "nil"
    /\ query = NoQuery
    /\ NoLater

\* RetryNotify calls the operation: f takes some time and returns; if the
\* error is nil RetryNotify returns nil, and request returns ret, res and nil
RequestAttempt ==
    /\ pc = "request"
    /\ rq.pc = "call"
    /\ \E kind \in (IF rq.always THEN LastKinds \ {"ok"} ELSE LastKinds), d \in {0, 1} :
          LET n == Min(rq.attempts + 1, MaxTries)
              v == FReturn(n, kind)
              called == op(rq, v)
          IN  rq' = [called EXCEPT
                        !.attempts = n,
                        !.elapsed = Min(rq.elapsed + d, MaxElapsed),
                        !.lastKind = kind,
                        !.last = v,
                        !.pc = IF called.err = NilValue THEN "returned" ELSE "backoff",
                        !.out = IF called.err = NilValue
                                THEN [ret |-> called.ret, res |-> called.res, err |-> NilValue]
                                ELSE @]
    /\ UNCHANGED <<dryRun, fieldIDs, jira, jcomments, clock, pc, ghIssues, jiraIssues, idx,
                   ret, calls, runs, updated, clientVars, did, project, pageCap, listed,
                   meta, loadErr, query, laterVars>>

\* the operation returned an error: if NextBackOff says Stop, RetryNotify
\* returns that error and request returns ret, res and the error; otherwise
\* RetryNotify sleeps and calls the operation again
RequestBackOff ==
    /\ pc = "request"
    /\ rq.pc = "backoff"
    /\ rq' = IF NextBackOffStops(rq.timeout, rq.elapsed)
             THEN [rq EXCEPT !.pc = "returned",
                             !.out = [ret |-> rq.ret, res |-> rq.res, err |-> rq.err]]
             ELSE [rq EXCEPT !.pc = "call", !.elapsed = Min(rq.elapsed + 1, MaxElapsed)]
    /\ UNCHANGED <<dryRun, fieldIDs, jira, jcomments, clock, pc, ghIssues, jiraIssues, idx,
                   ret, calls, runs, updated, clientVars, did, project, pageCap, listed,
                   meta, loadErr, query, laterVars>>

NextRequest == RequestAttempt \/ RequestBackOff

SpecRequest == InitRequest /\ [][NextRequest]_vars

\* f returns from every call and the sleep of RetryNotify ends
FairSpecRequest == SpecRequest /\ WF_vars(NextRequest)

-----------------------------------------------------------------------------
(* NewJIRAClient, LoadJIRAConfig and getFieldIDs: the start of the program  *)
(* against a JIRA server whose field metadata can lack custom fields.      *)

\* the display names of the seven custom fields
FieldNames == FullMeta.names

\* fields{}
ZeroFieldIDs ==
    [githubID |-> "", githubNumber |-> "", githubLabels |-> "", githubStatus |-> "",
     githubReporter |-> "", lastUpdate |-> "", githubURI |-> ""]

\* fmt.Sprint(field.Schema.CustomID) of the field of that name, "" without one
CustomIDOf(names, name, id) == IF name \in names THEN id ELSE ""

\* getFieldIDs: the ids found in the field metadata, and nil ("nil") or an
\* error; the error for a missing field is written as the name its message
\* quotes
getFieldIDs(m) ==
    IF m.fieldsReq # "ok" THEN [fieldIDs |-> ZeroFieldIDs, err |-> "request error"]
    ELSE LET ids == [githubID |-> CustomIDOf(m.names, "GitHub ID", ResolvedFieldIDs.githubID),
                     githubNumber |->
                         CustomIDOf(m.names, "GitHub Number", ResolvedFieldIDs.githubNumber),
                     githubLabels |->
                         CustomIDOf(m.names, "GitHub Labels", ResolvedFieldIDs.githubLabels),
                     githubStatus |->
                         CustomIDOf(m.names, "GitHub Status", ResolvedFieldIDs.githubStatus),
                     githubReporter |->
                         CustomIDOf(m.names, "GitHub Reporter", ResolvedFieldIDs.githubReporter),
                     lastUpdate |->
                         CustomIDOf(m.names, "Last Issue-Sync Update",
                                    ResolvedFieldIDs.lastUpdate),
                     githubURI |->
                         CustomIDOf(m.names, "GitHub URI", ResolvedFieldIDs.githubURI)]
         IN  [fieldIDs |-> ids,
              err |-> IF ids.githubID = "" THEN "GitHub ID"
                      ELSE IF ids.githubNumber = "" THEN "GitHub Number"
                      ELSE IF ids.githubLabels = "" THEN "Github Labels"
                      ELSE IF ids.githubStatus = "" THEN "Github Status"
                      ELSE IF ids.githubReporter = "" THEN "Github Reporter"
                      ELSE IF ids.lastUpdate = "" THEN "Last Issue-Sync Update"
                      \* the last test is of lastUpdate again, not of githubURI
                      ELSE IF ids.lastUpdate = "" THEN "GitHub URI"
                      ELSE "nil"]

\* LoadJIRAConfig: what it returns and the project and field ids it leaves in
\* the configuration; res.Body of a nil response panics
LoadJIRAConfig(m) ==
    CASE m.project = "nores" ->
            [kind |-> "panic", err |-> "", project |-> project, fieldIDs |-> fieldIDs]
      [] m.project = "unreadable" ->
            [kind |-> "err", err |-> "read error", project |-> project,
             fieldIDs |-> fieldIDs]
      [] m.project = "body" ->
            [kind |-> "err", err |-> "response body", project |-> project,
             fieldIDs |-> fieldIDs]
      [] OTHER ->
            LET g == getFieldIDs(m)
            IN  [kind |-> IF g.err = "nil" THEN "ok" ELSE "err", err |-> g.err,
                 project |-> ProjectKey, fieldIDs |-> g.fieldIDs]

\* the field metadata the server can hold: any of the seven fields missing
MetaSet ==
    {[FullMeta EXCEPT !.names = n] : n \in SUBSET FieldNames}
    \cup {[FullMeta EXCEPT !.project = p] : p \in {"body", "unreadable", "nores"}}
    \cup {[FullMeta EXCEPT !.fieldsReq = "err"], [FullMeta EXCEPT !.client = "err"]}

InitConfig ==
    /\ dryRun \in BOOLEAN
    /\ fieldIDs = ZeroFieldIDs
    /\ jira = <<Mirror(1, BaseIssue(1))>>
    /\ jcomments = <<>>
    /\ clock = 1
    /\ pc = "start"
    /\ ghIssues = <<>>
    /\ jiraIssues = <<>>
    /\ idx = 0
    /\ ret = "none"
    /\ calls = <<>>
    /\ runs = 0
    /\ updated = [id \in Ids |-> NoGhIssue]
    /\ ops = 0
    /\ sentMut = 0
    /\ sentRead = 0
    /\ lastCall = NoCall
    /\ did = NoDid
    /\ project = ""
    /\ pageCap = maxResults
    /\ listed = NoListed
    /\ rq = NoRq
    /\ meta \in MetaSet
    /\ loadErr = "none"
    /\ query = NoQuery
    /\ NoLater

\* NewJIRAClient: an error when the JIRA client cannot be set up; otherwise
\* LoadJIRAConfig is called, what it returns is dropped, and the client for
\* the configured mode is returned with a nil error
NewJIRAClient ==
    /\ pc = "start"
    /\ IF meta.client # "ok"
       THEN /\ pc' = "failed"
            /\ UNCHANGED <<fieldIDs, project, loadErr>>
       ELSE LET l == LoadJIRAConfig(meta)
            IN  /\ pc' = IF l.kind = "panic" THEN "crashed" ELSE "configured"
                /\ fieldIDs' = l.fieldIDs
                /\ project' = l.project
                /\ loadErr' = IF l.kind = "panic" THEN loadErr ELSE l.err
    /\ UNCHANGED <<dryRun, jira, jcomments, clock, ghIssues, jiraIssues, idx, ret, calls,
                   runs, updated, clientVars, did, pageCap, listed, rq, meta, query,
                   laterVars>>

NextConfig == NewJIRAClient \/ CallListIssues \/ CallCreateIssue \/ CallUpdateIssue

SpecConfig == InitConfig /\ [][NextConfig]_vars

-----------------------------------------------------------------------------
(* Properties of Sync runs.                                                *)

\* the source id a JIRA issue is mapped to (0 and an error if it has none)
GitHubIDOf(issue) == UnknownsInt(issue.Fields.Unknowns, GetFieldKey("GitHubID"))

IsDispatch(c) == c.op \in {"UpdateIssue", "CreateIssue"}

\* the entries of the call record in which CompareIssues hands a source issue on
Dispatches == SelectSeq(calls, IsDispatch)

\* positions in jiraIssues of the issues mapped to the id of g
MatchesOf(g) == {k \in 1..Len(jiraIssues) : GitHubIDOf(jiraIssues[k]).val = g.ID}

SmallestOf(S) == CHOOSE k \in S : \A l \in S : k <= l

\* C1: when a call made for a source issue fails, the run still ends with
\* CompareIssues returning nil and with every source issue of the batch
\* handed to UpdateIssue or CreateIssue
C1_PartialFailureIsolation ==
    (/\ pc \in {"done", "crashed"}
     /\ \E k \in 1..Len(calls) : calls[k].src > 0 /\ calls[k].res # "ok")
    => (/\ pc = "done"
        /\ ret = "nil"
        /\ \A i \in 1..Len(ghIssues) :
              \E k \in 1..Len(calls) : IsDispatch(calls[k]) /\ calls[k].src = i)

\* C2: after any sequence of Sync runs, no two JIRA issues are mapped to the
\* same source id
C2_UniqueCrossReference ==
    \A a, b \in 1..Len(jira) :
        (a # b /\ ~GitHubIDOf(jira[a]).err /\ ~GitHubIDOf(jira[b]).err)
        => GitHubIDOf(jira[a]).val # GitHubIDOf(jira[b]).val

\* C8: the source issues are handed on in list order, one entry each, to
\* UpdateIssue with the first listed issue mapped to the source id if there
\* is one and to CreateIssue otherwise; a run that returns nil after
\* ListIssues has handed on every source issue
C8_Dispatch ==
    /\ Len(Dispatches) = (IF idx > 0 THEN idx - 1 ELSE 0)
    /\ \A i \in 1..Len(Dispatches) :
          LET d == Dispatches[i]
              M == MatchesOf(ghIssues[i])
          IN  /\ d.src = i
              /\ IF M = {} THEN d.op = "CreateIssue"
                 ELSE d.op = "UpdateIssue" /\ d.arg = jiraIssues[SmallestOf(M)].Key
    /\ (pc = "done" /\ ret = "nil") => Len(Dispatches) = Len(ghIssues)

\* a finished run whose list held two issues mapped to the id of its second
\* source issue: the first source issue was created, the second was handed
\* once, to UpdateIssue with the first of the two, whose jClient.UpdateIssue
\* call succeeded
C8_Witness ==
    /\ pc = "done"
    /\ ret = "nil"
    /\ Len(ghIssues) = 2
    /\ Cardinality(MatchesOf(ghIssues[2])) = 2
    /\ Len(Dispatches) = 2
    /\ Dispatches[1].op = "CreateIssue"
    /\ Dispatches[2].op = "UpdateIssue"
    /\ Dispatches[2].arg = jiraIssues[1].Key
    /\ jiraIssues[1].Key # jiraIssues[2].Key
    /\ \E k \in 1..Len(calls) :
          /\ calls[k].op = "jClient.UpdateIssue"
          /\ calls[k].arg = jiraIssues[1].Key
          /\ calls[k].res = "ok"
    /\ \A k \in 1..Len(calls) : calls[k].arg # jiraIssues[2].Key

\* C9: with an empty batch CompareIssues returns nil and makes no client
\* call; with a non-empty batch the first client call of the run is
\* ListIssues with the ids of the batch, and it is the only ListIssues call
C9_ListOnce ==
    /\ [](/\ (pc \in {"loop", "done", "crashed"} /\ Len(ghIssues) > 0)
              => (/\ Len(calls) >= 1
                  /\ calls[1].op = "jClient.ListIssues"
                  /\ calls[1].ids = BatchIDs(ghIssues)
                  /\ \A k \in 2..Len(calls) : calls[k].op # "jClient.ListIssues")
          /\ Len(ghIssues) = 0 => calls = <<>>)
    /\ [][(pc = "compare" /\ Len(ghIssues) = 0)
            => (pc' = "done" /\ ret' = "nil" /\ calls' = <<>> /\ jira' = jira)]_vars

\* a run with a non-empty batch listed once and then created, fetched and reconciled
C9_Witness ==
    /\ pc = "done"
    /\ Len(ghIssues) = 2
    /\ Len(calls) >= 7
    /\ \E k \in 2..Len(calls) : calls[k].op = "jClient.GetIssue"
    /\ \E k \in 2..Len(calls) : calls[k].op = "jClient.CreateIssue"

\* C10: when ListIssues fails, CompareIssues and Sync return the error and
\* no other client call is made; a run that returns an error made no
\* CreateIssue, UpdateIssue, GetIssue or comment call
C10_BatchErrorsAbort ==
    /\ (\E k \in 1..Len(calls) : calls[k].op = "jClient.ListIssues" /\ calls[k].res # "ok")
       => (pc = "done" /\ ret = "err" /\ Len(calls) = 1)
    /\ ret = "err" => \A k \in 1..Len(calls) : calls[k].op = "jClient.ListIssues"

\* C5: when UpdateIssue is handed a GitHub issue that a successful Live
\* jClient.UpdateIssue wrote last for that id, together with the re-listed
\* JIRA issue, DidIssueChange is false and no jClient.UpdateIssue call is made
C5_UpdateIdempotent ==
    [][(/\ pc = "loop"
        /\ idx <= Len(ghIssues)
        /\ ~dryRun
        /\ updated[ghIssues[idx].ID] = ghIssues[idx]
        /\ MatchesOf(ghIssues[idx]) # {})
       => (/\ ~DidIssueChange(ghIssues[idx], jiraIssues[SmallestOf(MatchesOf(ghIssues[idx]))])
           /\ \A k \in (Len(calls) + 1)..Len(calls') :
                 calls'[k].op # "jClient.UpdateIssue")]_vars

\* the second run went through UpdateIssue for an issue the first run had
\* written, and made no jClient.UpdateIssue call for it
C5_Witness ==
    /\ ~dryRun
    /\ runs = 2
    /\ \E c \in 1..Len(calls) :
          /\ calls[c].op = "UpdateIssue"
          /\ calls[c].res = "ok"
          /\ updated[ghIssues[calls[c].src].ID] = ghIssues[calls[c].src]
          /\ \A k \in 1..Len(calls) :
                ~(calls[k].op = "jClient.UpdateIssue" /\ calls[k].src = calls[c].src)

\* the JIRA issue t mirrors the GitHub issue g in the five compared fields
Mirrors(t, g) ==
    /\ t.Fields.Summary = g.Title
    /\ t.Fields.Description = g.Body
    /\ UnknownsString(t.Fields.Unknowns, GetFieldKey("GitHubStatus")) =
          [err |-> FALSE, val |-> g.State]
    /\ UnknownsString(t.Fields.Unknowns, GetFieldKey("GitHubReporter")) =
          [err |-> FALSE, val |-> g.Login]
    /\ UnknownsString(t.Fields.Unknowns, GetFieldKey("GitHubLabels")) =
          [err |-> FALSE, val |-> Join(g.Labels)]

\* C6: after a Live run in which every call succeeded, every source issue of
\* the batch has a JIRA issue mapped to it that mirrors it
C6_Convergence ==
    (/\ pc = "done"
     /\ ret = "nil"
     /\ ~dryRun
     /\ \A k \in 1..Len(calls) : calls[k].res = "ok")
    => \A i \in 1..Len(ghIssues) :
         \E t \in 1..Len(jira) :
            GitHubIDOf(jira[t]).val = ghIssues[i].ID /\ Mirrors(jira[t], ghIssues[i])

-----------------------------------------------------------------------------
(* Properties of the two clients.                                          *)

\* C3: the dry-run client sends no mutating request and leaves the issues
\* and comments of the project as they are, whatever is called on it
C3_DryRunNoMutation ==
    [][dryRun => (sentMut' = 0 /\ jira' = jira /\ jcomments' = jcomments)]_vars

\* the dry-run client was asked to create, update and comment, and sent read requests
C3_Witness ==
    /\ dryRun
    /\ ops >= 2
    /\ sentRead > 0
    /\ lastCall.op = "UpdateComment"
    /\ lastCall.kind = "ok"

\* C4 as stated: on the Live client the mutating requests sent are as many
\* as the operations called
C4_OneRequestPerOperation == ~dryRun => sentMut = ops

\* C4, amended: a Live operation sends one mutating request per attempt of
\* its request, and none if it returns or crashes before the request:
\* CreateComment and UpdateComment when the author lookup fails,
\* UpdateComment when the composed body is shorter than maxBodyLength
C4_RequestsPerOperation ==
    (~dryRun /\ lastCall.op \in {"CreateIssue", "UpdateIssue", "CreateComment", "UpdateComment"})
    => /\ lastCall.sent =
            (IF lastCall.op \in {"CreateComment", "UpdateComment"} /\ ~lastCall.userOk
             THEN 0
             ELSE IF lastCall.op = "UpdateComment" /\ lastCall.bodyLen < maxBodyLength
             THEN 0
             ELSE lastCall.attempts)
       /\ sentMut <= ops * MaxAttempts
       /\ sentMut >= lastCall.sent

\* a Live operation was retried, and a later comment operation sent nothing
\* because its author lookup failed
C4_Witness ==
    /\ ~dryRun
    /\ ops >= 2
    /\ sentMut >= 2
    /\ lastCall.op = "CreateComment"
    /\ ~lastCall.userOk
    /\ lastCall.sent = 0

-----------------------------------------------------------------------------
(* Properties of DidIssueChange.                                           *)

\* the string a mirrored field holds ("" if it holds none)
MirroredString(jIssue, key) == UnknownsString(jIssue.Fields.Unknowns, GetFieldKey(key)).val

\* C7: DidIssueChange is true exactly when one of the five comparisons
\* differs: title and summary, body and description, state and mirrored
\* status, reporter login and mirrored reporter, joined labels and mirrored
\* labels
C7_AnyDifference ==
    pc = "did_done" =>
        (did.result <=>
            \/ did.gh.Title # did.j.Fields.Summary
            \/ did.gh.Body # did.j.Fields.Description
            \/ did.gh.State # MirroredString(did.j, "GitHubStatus")
            \/ did.gh.Login # MirroredString(did.j, "GitHubReporter")
            \/ Join(did.gh.Labels) # MirroredString(did.j, "GitHubLabels"))

-----------------------------------------------------------------------------
(* Properties of ListIssues and getIssues.                                 *)

\* the issue is of the configured project and its GitHub ID field holds one of ids
IsListedFor(issue, ids) ==
    /\ issue.Fields.Project = GetProjectKey
    /\ LET v == GitHubIDOf(issue)
       IN  ~v.err /\ \E k \in 1..Len(ids) : ids[k] = v.val

\* the issues of the store that are listed for ids, in the order of the store
ListedFor(store, ids) ==
    LET Listed(issue) == IsListedFor(issue, ids)
    IN  SelectSeq(store, Listed)

\* C11: a ListIssues call of the Live client that succeeds returns exactly
\* the issues of the configured project whose GitHub ID field holds one of
\* the given ids, whether the ids went into the JQL or the result was
\* filtered by the client
C11_ListIssuesExact ==
    (pc = "list_done" /\ listed.kind = "ok")
    => listed.issues = ListedFor(jira, listed.ids)

\* the issues of the store that are of the configured project
OfProject(store) ==
    LET InProject(issue) == issue.Fields.Project = GetProjectKey
    IN  SelectSeq(store, InProject)

\* C12: when every page request succeeds, getIssues returns every issue that
\* matches the query exactly once, whatever the number of issues the server
\* returns per page
C12_PaginationComplete ==
    (pc = "list_done" /\ listed.kind = "ok")
    => listed.fetched =
          (IF Len(listed.ids) < maxJQLIssueLength
           THEN ListedFor(jira, listed.ids) ELSE OfProject(jira))

-----------------------------------------------------------------------------
(* Properties of request.                                                  *)

\* C13: request returns what the last call of f returned: after a call with
\* a nil error its result and response and a nil error; after the time budget
\* is spent the result, response and error of the last call, as they are;
\* and it returns an error only when the budget is spent
C13_RequestResult ==
    rq.pc = "returned" =>
        /\ rq.out.ret = rq.last.ret
        /\ rq.out.res = rq.last.res
        /\ rq.out.err = rq.last.err
        /\ rq.out.err = NilValue <=> rq.lastKind = "ok"
        /\ rq.out.err # NilValue => (rq.timeout # 0 /\ rq.elapsed > rq.timeout)
        /\ request([attempts |-> rq.attempts, last |-> rq.lastKind]) =
              [err |-> rq.out.err # NilValue, res |-> rq.lastKind, attempts |-> rq.attempts]

\* request returned the result of its third call of f after two calls that failed
C13_Witness ==
    /\ rq.pc = "returned"
    /\ rq.attempts = 3
    /\ rq.out.err = NilValue
    /\ rq.out.ret = [n |-> 3, kind |-> "value"]
    /\ rq.out.res = [n |-> 3, kind |-> "ok"]

\* C14 as stated: every call of request returns, whatever the timeout
C14_AlwaysReturns == <>(rq.pc = "returned")

\* C14, amended: with a timeout that is not zero every call of request
\* returns; against an operation that fails at every call it returns an
\* error, and only once more time than the timeout has elapsed
C14_ReturnsIfTimeoutSet ==
    /\ [](rq.timeout # 0 => <>(rq.pc = "returned"))
    /\ []((rq.pc = "returned" /\ rq.always)
            => (rq.out.err # NilValue /\ rq.timeout # 0 /\ rq.elapsed > rq.timeout))

\* request gave up on an operation that failed at every call, after retrying
C14_Witness ==
    /\ rq.pc = "returned"
    /\ rq.always
    /\ rq.timeout = 2
    /\ rq.attempts >= 2
    /\ rq.out.err # NilValue

-----------------------------------------------------------------------------
(* Properties of the client operations: failures (SpecClient) and comment  *)
(* bodies (SpecComment)                                                    *)

\* C15: whenever the request of a client operation ends in a terminal error,
\* the operation returns an error (it does not crash); the error text is the
\* response body when there is a readable one, and the transport error when
\* the body cannot be read or there is no response at all. The error of a
\* failed read of the body is taken as a transport error here.
C15_TerminalFailureDetail ==
    (lastCall.n > 0 /\ lastCall.last # "ok" /\ lastCall.sent + lastCall.sentRead > 0)
    => /\ lastCall.kind = "err"
       /\ lastCall.err \in
             (CASE lastCall.last = "body" -> {"response body"}
                [] lastCall.last = "unreadable" -> {"read error", "transport error"}
                [] OTHER -> {"transport error"})

\* the body is the first bytes of the composed body
IsCutOf(body, composed) ==
    /\ body.head = composed.head
    /\ body.width = composed.width
    /\ body.pad <= composed.pad

\* C16 as stated, lengths counted in characters: the body CreateComment
\* submits is the composed body when that has at most maxBodyLength
\* characters, and is cut to exactly maxBodyLength characters otherwise
C16_CutInCharacters ==
    (lastCall.op = "CreateComment" /\ lastCall.kind = "ok")
    => IF TextChars(lastCall.composed) <= maxBodyLength
       THEN lastCall.comment.Body = lastCall.composed
       ELSE /\ IsCutOf(lastCall.comment.Body, lastCall.composed)
            /\ TextChars(lastCall.comment.Body) = maxBodyLength

\* C16, amended: lengths are counted in bytes. The body CreateComment submits
\* is the composed body when that has at most maxBodyLength bytes, and its
\* first maxBodyLength bytes otherwise; no submitted body is longer than
\* maxBodyLength bytes
C16_CutInBytes ==
    (lastCall.op = "CreateComment" /\ lastCall.kind = "ok")
    => /\ TextLen(lastCall.comment.Body) <= maxBodyLength
       /\ IF TextLen(lastCall.composed) <= maxBodyLength
          THEN lastCall.comment.Body = lastCall.composed
          ELSE /\ IsCutOf(lastCall.comment.Body, lastCall.composed)
               /\ TextLen(lastCall.comment.Body) = maxBodyLength

\* a composed body longer than the limit was submitted cut, by a call made
\* after a composed body exactly at the limit went through unchanged
C16_Witness ==
    /\ lastCall.op = "CreateComment"
    /\ lastCall.kind = "ok"
    /\ TextLen(lastCall.composed) > maxBodyLength
    /\ TextLen(lastCall.comment.Body) = maxBodyLength
    /\ \E k \in 1..Len(jcomments) :
          /\ TextLen(jcomments[k].Body) = maxBodyLength
          /\ jcomments[k].Body.head # lastCall.composed.head
          /\ jcomments[k].Body \in {realCommentBody(c, NamelessUser) : c \in LimitComments}

\* the PUT of the last UpdateComment was answered without an error
PutSucceeded ==
    /\ lastCall.op = "UpdateComment"
    /\ lastCall.sent > 0
    /\ lastCall.kind = "ok" \/ (lastCall.kind = "err" /\ lastCall.err = "type")

\* the body the target holds for the comment of the last UpdateComment
PutBody == (CHOOSE k \in 1..Len(jcomments) : jcomments[k].ID = lastCall.id)

\* C17: UpdateComment does not crash whatever the length of the composed
\* body, and the body it puts is the composed body when that is at most
\* maxBodyLength long, and its first maxBodyLength bytes otherwise
C17_UpdateCommentCut ==
    (lastCall.op = "UpdateComment" /\ lastCall.userOk)
    => /\ lastCall.kind # "panic"
       /\ PutSucceeded
            => IF TextLen(lastCall.composed) <= maxBodyLength
               THEN jcomments[PutBody].Body = lastCall.composed
               ELSE /\ IsCutOf(jcomments[PutBody].Body, lastCall.composed)
                    /\ TextLen(jcomments[PutBody].Body) = maxBodyLength

\* C18: when the author lookup and the PUT succeed, UpdateComment returns a
\* comment and a nil error
C18_UpdateCommentReturns ==
    (lastCall.op = "UpdateComment" /\ lastCall.userOk /\ PutSucceeded)
    => /\ lastCall.kind = "ok"
       /\ lastCall.comment.ID = lastCall.id

-----------------------------------------------------------------------------
(* Properties of the start of the program (SpecConfig)                     *)

\* the field a message of getFieldIDs names, whatever the case of its letters
NamedField(err) ==
    CASE err = "Github Labels" -> "GitHub Labels"
      [] err = "Github Status" -> "GitHub Status"
      [] err = "Github Reporter" -> "GitHub Reporter"
      [] OTHER -> err

\* getFieldIDs was called and its request was answered
FieldsChecked ==
    /\ pc \in {"configured", "ran"}
    /\ meta.project = "ok"
    /\ meta.fieldsReq = "ok"

\* C19: when the field metadata lacks one of the seven custom fields,
\* getFieldIDs returns an error that names a field that is missing; it
\* returns a nil error only when all seven ids are resolved
C19_MissingFieldNamed ==
    FieldsChecked
    => /\ (FieldNames \ meta.names # {})
            => (loadErr # "nil" /\ NamedField(loadErr) \in FieldNames \ meta.names)
       /\ loadErr = "nil" => \A f \in DOMAIN fieldIDs : fieldIDs[f] # ""

\* the custom fields CreateIssue and UpdateIssue put in the issue they submit
SubmittedKeys ==
    IF lastCall.op = "CreateIssue"
    THEN {"GitHubID", "GitHubNumber", "GitHubStatus", "GitHubReporter", "GitHubLabels",
          "LastISUpdate"}
    ELSE {"GitHubStatus", "GitHubReporter", "GitHubLabels", "LastISUpdate"}

\* C20: when LoadJIRAConfig fails, NewJIRAClient returns no client, so no
\* operation is made; and whenever a CreateIssue or an UpdateIssue is
\* submitted, every field id its field set uses is resolved
C20_MissingFieldFatal ==
    /\ (loadErr \notin {"none", "nil"}) => (pc \notin {"configured", "ran"} /\ lastCall.n = 0)
    /\ (lastCall.op \in {"CreateIssue", "UpdateIssue"} /\ lastCall.sent > 0)
          => \A key \in SubmittedKeys : GetFieldID(key) # ""

-----------------------------------------------------------------------------
(* Properties of the search query (SpecQuery)                              *)

\* the elements of a sequence
Range(seq) == {seq[i] : i \in 1..Len(seq)}

\* the terms the organisations of a configuration stand for
OrgTerms(orgs) ==
    UNION {IF Len(orgs[i].Repos) = 0 THEN {"org:" \o orgs[i].Name}
           ELSE {"repo:" \o orgs[i].Name \o "/" \o orgs[i].Repos[k] :
                    k \in 1..Len(orgs[i].Repos)} : i \in 1..Len(orgs)}

\* C21: the query built has one involves term per member, the org and repo
\* terms of the configured organisations, and exactly one updated term, which
\* gives the watermark with the UTC offset of its own zone
C21_QueryTerms ==
    pc = "query_done"
    => LET since == "updated:>=" \o query.cfg.since.local \o query.cfg.since.offset
       IN  /\ Range(query.terms) =
                 {"involves:" \o query.members.users[i] : i \in 1..Len(query.members.users)}
                 \cup OrgTerms(query.cfg.repos) \cup {since}
           /\ Len(SelectSeq(query.terms, LAMBDA t : t = since)) = 1
           /\ Len(query.terms) = Len(query.members.users) + 1
                 + Len(buildOrgQuery(query.cfg.repos))

\* C22: when GetMembers fails, Sync returns the error: the process does not
\* crash, SearchIssues is not called and no JIRAClient call is made
C22_MembersErrorReturned ==
    (runs > 0 /\ query.members.kind = "err")
    => /\ pc = "done"
       /\ ret = "err"
       /\ query.search = "none"
       /\ calls = <<>>

-----------------------------------------------------------------------------
(* Properties of the per-issue flow of the engine (Spec)                   *)

\* the calls made for the source issue of the dispatch at position c of the
\* call record, in order
SubCalls(c) ==
    LET Under(e) == e.src = calls[c].src /\ e.op \notin {"UpdateIssue", "CreateIssue"}
    IN  SelectSeq(SubSeq(calls, c + 1, Len(calls)), Under)

OpsOf(seq) == [k \in 1..Len(seq) |-> seq[k].op]

IsPrefix(a, b) == Len(a) <= Len(b) /\ a = SubSeq(b, 1, Len(a))

\* the calls sub are the first calls of the flow full, each made after the
\* one before it returned without an error, and they stop short of the end
\* of the flow only at a call that did not return without an error
FollowsFlow(sub, full) ==
    /\ Len(sub) >= 1
    /\ IsPrefix(OpsOf(sub), full)
    /\ \A k \in 1..(Len(sub) - 1) : sub[k].res = "ok"
    /\ Len(sub) < Len(full) => sub[Len(sub)].res # "ok"

\* the JIRA issue the source issue at position i was matched with
MatchedWith(i) == jiraIssues[FindMatch(jiraIssues, ghIssues[i], 1)]

\* C23: for every UpdateIssue of the engine, jClient.UpdateIssue is called
\* exactly when DidIssueChange holds, then GetIssue once with the key of the
\* JIRA issue, then comment reconciliation once with the issue fetched, in
\* that order, each after the one before returned without an error
C23_UpdateFlow ==
    \A c \in 1..Len(calls) :
        calls[c].op = "UpdateIssue"
        => LET j == MatchedWith(calls[c].src)
               sub == SubCalls(c)
           IN  /\ FollowsFlow(sub,
                      (IF DidIssueChange(ghIssues[calls[c].src], j)
                       THEN <<"jClient.UpdateIssue">> ELSE <<>>)
                      \o <<"jClient.GetIssue", "CompareComments">>)
               /\ \A k \in 1..Len(sub) :
                      (sub[k].res = "ok" \/ sub[k].op # "CompareComments") => sub[k].arg = j.Key

\* a run updated one issue that had changed and went through the flow of
\* another that had not
C23_Witness ==
    \E c, d \in 1..Len(calls) :
        /\ calls[c].op = "UpdateIssue" /\ calls[d].op = "UpdateIssue"
        /\ OpsOf(SubCalls(c)) = <<"jClient.UpdateIssue", "jClient.GetIssue", "CompareComments">>
        /\ OpsOf(SubCalls(d)) = <<"jClient.GetIssue", "CompareComments">>
        /\ \A k \in 1..3 : SubCalls(c)[k].res = "ok"
        /\ \A k \in 1..2 : SubCalls(d)[k].res = "ok"

\* the labels of the model joined with commas
CommaJoined(labels) ==
    CASE Len(labels) = 0 -> ""
      [] Len(labels) = 1 -> labels[1]
      [] OTHER -> labels[1] \o "," \o labels[2]

\* the field set of a new JIRA issue for the source issue g
CreatedFields(g) ==
    [Summary |-> g.Title, Description |-> g.Body, Type |-> "Task", Project |-> project,
     Unknowns |->
        [x \in {"customfield_" \o fieldIDs.githubID, "customfield_" \o fieldIDs.githubNumber,
                "customfield_" \o fieldIDs.githubStatus,
                "customfield_" \o fieldIDs.githubReporter,
                "customfield_" \o fieldIDs.githubLabels,
                "customfield_" \o fieldIDs.lastUpdate} |->
            CASE x = "customfield_" \o fieldIDs.githubID -> Num(g.ID)
              [] x = "customfield_" \o fieldIDs.githubNumber -> Num(g.Number)
              [] x = "customfield_" \o fieldIDs.githubStatus -> Str(g.State)
              [] x = "customfield_" \o fieldIDs.githubReporter -> Str(g.Login)
              [] x = "customfield_" \o fieldIDs.githubLabels -> Str(CommaJoined(g.Labels))
              [] OTHER -> Str(FormatDate(clock))]]

\* C24: for every CreateIssue of the engine, one field set is submitted with
\* the project, the title as summary, the body as description, the type Task
\* and the six mirrored fields; then GetIssue is called with the key of the
\* issue the client returned; then comment reconciliation with the issue
\* fetched, in that order, each after the one before returned without an error
C24_CreateFlow ==
    \A c \in 1..Len(calls) :
        calls[c].op = "CreateIssue"
        => LET sub == SubCalls(c)
           IN  /\ FollowsFlow(sub, <<"jClient.CreateIssue", "jClient.GetIssue",
                                     "CompareComments">>)
               /\ sub[1].issue.Fields = CreatedFields(ghIssues[calls[c].src])
               /\ Len(sub) >= 2 => sub[2].arg = sub[1].got
               /\ (Len(sub) = 3 /\ sub[3].res = "ok") => sub[3].arg = sub[1].got

\* a Live run created an issue, fetched it by the key the server gave it and
\* reconciled its comments
C24_Witness ==
    \E c \in 1..Len(calls) :
        /\ calls[c].op = "CreateIssue"
        /\ Len(SubCalls(c)) = 3
        /\ \A k \in 1..3 : SubCalls(c)[k].res = "ok"
        /\ SubCalls(c)[1].got # ""
        /\ \E k \in 1..Len(jira) :
              /\ jira[k].Key = SubCalls(c)[1].got
              /\ jira[k].Fields = CreatedFields(ghIssues[calls[c].src])

-----------------------------------------------------------------------------
(* Properties of the engine with the two clients (SpecModes)               *)

\* C25: for the same source issue, the same project and the same answers of
\* the network, the engine with the dry-run client makes the decision it
\* makes with the real client; and when the issue reaches comment
\* reconciliation with the real client, it goes through the same calls and
\* reaches comment reconciliation with the dry-run client
C25_ModeIndependent ==
    pc = "modes_done"
    => /\ modes.preview.decision = modes.live.decision
       /\ (\E k \in 1..Len(modes.live.ops) : modes.live.ops[k] = "CompareComments")
            => modes.preview.ops = modes.live.ops

\* the mirrored issues of the project whose GitHub ID field is id
Carrying(id) ==
    {k \in 1..Len(jira) :
        UnknownsInt(jira[k].Fields.Unknowns, GetFieldKey("GitHubID")) = [err |-> FALSE, val |-> id]}

\* run p has called CreateIssue for the source id
CalledCreate(p, id) ==
    \E k \in 1..Len(overlap[p].calls) :
        overlap[p].calls[k].op = "CreateIssue" /\ overlap[p].calls[k].id = id

\* run p got a list without a match for the source issue at position i of
\* its batch, and its loop has gone past that position
PassedUnmatched(p, i) ==
    /\ overlap[p].pc \in {"loop", "get", "comments", "done"}
    /\ overlap[p].idx > i
    /\ i \in 1..Len(overlap[p].ghIssues)
    /\ FindMatch(overlap[p].jiraIssues, overlap[p].ghIssues[i], 1) = 0

\* C26: no run waits for the other: a run that is about to list can list
\* whatever the other run is doing; and every run calls CreateIssue for each
\* source issue unmatched in the list it fetched, whatever the other run has
\* created in the meantime
C26_NoRunExclusion ==
    pc = "overlap"
    => \A p \in Procs :
          /\ overlap[p].pc = "compare" => ENABLED OverlapList(p)
          /\ \A i \in 1..MaxBatch :
                PassedUnmatched(p, i) => CalledCreate(p, overlap[p].ghIssues[i].ID)

\* both runs listed before either created, both created for source id 1 with
\* success, and the project holds two issues carrying that id
C26_Witness ==
    /\ pc = "overlap"
    /\ \A p \in Procs :
          /\ overlap[p].pc = "done"
          /\ \E k \in 1..Len(overlap[p].calls) :
                overlap[p].calls[k] = [op |-> "CreateIssue", id |-> 1, res |-> "ok"]
    /\ Cardinality(Carrying(1)) = 2

\* the read of a mirrored field of the JIRA issue DidIssueChange was given
MirroredRead(key) == UnknownsString(did.j.Fields.Unknowns, GetFieldKey(key))

\* title, body, state or reporter make DidIssueChange true
OtherThanLabels ==
    \/ did.gh.Title # did.j.Fields.Summary
    \/ did.gh.Body # did.j.Fields.Description
    \/ MirroredRead("GitHubStatus").err
    \/ did.gh.State # MirroredRead("GitHubStatus").val
    \/ MirroredRead("GitHubReporter").err
    \/ did.gh.Login # MirroredRead("GitHubReporter").val

\* C27: with every other field equal, DidIssueChange is true exactly when the
\* read of the mirrored labels fails and the joined source labels differ from
\* the value read; when the mirrored labels are read, the result is that of
\* the other fields whatever the labels are
C27_LabelsOnlyWhenUnread ==
    pc = "did_done"
    => /\ ~OtherThanLabels
            => (did.result <=> /\ MirroredRead("GitHubLabels").err
                               /\ Join(did.gh.Labels) # MirroredRead("GitHubLabels").val)
       /\ ~MirroredRead("GitHubLabels").err => (did.result <=> OtherThanLabels)

\* labels that differ and are read: the result is false
C27_Witness ==
    /\ pc = "did_done"
    /\ ~OtherThanLabels
    /\ ~MirroredRead("GitHubLabels").err
    /\ Join(did.gh.Labels) # MirroredRead("GitHubLabels").val
    /\ ~did.result

\* C28: DidIssueChange is true whenever the mirrored status or the mirrored
\* reporter is missing or holds no string
C28_UnreadStatusOrReporter ==
    (/\ pc = "did_done"
     /\ MirroredRead("GitHubStatus").err \/ MirroredRead("GitHubReporter").err)
    => did.result

\* the mirrored status holds a number, every other field equals its source
C28_Witness ==
    /\ pc = "did_done"
    /\ MirroredRead("GitHubStatus").err
    /\ "customfield_10004" \in DOMAIN did.j.Fields.Unknowns
    /\ did.gh.Title = did.j.Fields.Summary
    /\ did.gh.Body = did.j.Fields.Description
    /\ MirroredRead("GitHubReporter") = [err |-> FALSE, val |-> did.gh.Login]
    /\ MirroredRead("GitHubLabels") = [err |-> FALSE, val |-> Join(did.gh.Labels)]
    /\ did.result

\* C29: of the calls made for one source issue, only the last can have
\* returned an error: after a call that did, no call is made for that issue
C29_AbortAfterError ==
    \A c \in 1..Len(calls) :
        calls[c].op \in {"UpdateIssue", "CreateIssue"}
        => \A k \in 1..(Len(SubCalls(c)) - 1) : SubCalls(c)[k].res = "ok"

\* a run went through two source issues: jClient.CreateIssue failed for the
\* first and nothing else was called for it, and the second was handed on
C29_Witness ==
    /\ pc = "done"
    /\ Len(calls) >= 4
    /\ calls[2].op = "CreateIssue"
    /\ calls[3].op = "jClient.CreateIssue" /\ calls[3].res = "err"
    /\ calls[4].op \in {"UpdateIssue", "CreateIssue"}

\* C30: called with the same ids against the same project on a server that
\* returns pages of the size asked for, the dry-run client's ListIssues and
\* the real client's ListIssues, when both succeed, return the same list of
\* issues
C30_ListIssuesSame ==
    (/\ pc = "list_both"
     /\ pageCap = maxResults
     /\ listed.kind = "ok"
     /\ dryListed.kind = "ok")
    => dryListed.issues = listed.issues

-----------------------------------------------------------------------------
(* Properties of getIssues page by page (SpecPages)                        *)

\* C31: getIssues asks for the pages in order, page k at StartAt 50 * k and
\* one page for each response received; it has sent a request before it
\* returns; and after a page request failed it has returned an error and no
\* issues
C31_PageLoop ==
    pc \in {"pages", "crashed"}
    => /\ \A k \in 1..Len(pages.sent) : pages.sent[k] = maxResults * (k - 1)
       /\ Len(pages.sent) = pages.page + (IF pages.failed THEN 1 ELSE 0)
       /\ pages.pc = "returned" => Len(pages.sent) >= 1
       /\ pages.failed
            => (pages.pc = "returned" /\ pages.kind = "err" /\ pages.issues = <<>>)

-----------------------------------------------------------------------------
(* Properties of the comment operations of both clients                    *)

\* the body realJIRAClient.CreateComment submits for the comment and author
\* of the last operation
LiveBody ==
    IF TextLen(lastCall.composed) >= maxBodyLength
    THEN Prefix(lastCall.composed, maxBodyLength) ELSE lastCall.composed

\* C32: the body of the comment the dry-run CreateComment or UpdateComment
\* returns is the body the real client submits for the same comment and the
\* same author
C32_SameCommentBody ==
    (/\ dryRun
     /\ lastCall.op \in {"CreateComment", "UpdateComment"}
     /\ lastCall.kind = "ok")
    => lastCall.comment.Body = LiveBody

\* C33: a CreateComment or UpdateComment of either client whose author lookup
\* failed returned the error of the lookup and an empty comment and sent no
\* request; one that sent a request had its author lookup succeed
C33_AuthorFirst ==
    lastCall.op \in {"CreateComment", "UpdateComment"}
    => /\ ~lastCall.userOk
            => /\ lastCall.kind = "err"
               /\ lastCall.err = "lookup"
               /\ lastCall.comment = ZeroComment
               /\ lastCall.sent = 0
               /\ lastCall.sentRead = 0
       /\ (lastCall.sent > 0 \/ lastCall.sentRead > 0) => lastCall.userOk

\* on the real client a comment was created with a request, then an
\* UpdateComment whose author lookup failed returned without sending one
C33_Witness ==
    /\ ~dryRun
    /\ Len(jcomments) >= 1
    /\ sentMut >= 1
    /\ lastCall.op = "UpdateComment"
    /\ ~lastCall.userOk
    /\ lastCall.kind = "err"
    /\ lastCall.sent = 0

-----------------------------------------------------------------------------
(* Properties of the field set of UpdateIssue (Spec)                       *)

\* the issue handed to jClient.UpdateIssue at position c of the call record
\* carries key, id and type of the JIRA issue matched and names neither the
\* GitHub ID field nor the GitHub Number field
KeepsIdentity(c) ==
    LET j == MatchedWith(calls[c].src)
        sent == calls[c].issue
    IN  /\ sent.Key = j.Key
        /\ sent.ID = j.ID
        /\ sent.Fields.Type = j.Fields.Type
        /\ GetFieldKey("GitHubID") \notin DOMAIN sent.Fields.Unknowns
        /\ GetFieldKey("GitHubNumber") \notin DOMAIN sent.Fields.Unknowns

\* C34: every issue UpdateIssue submits carries the key, id and type of the
\* JIRA issue and names neither the GitHub ID nor the GitHub Number field;
\* and no step changes the GitHub ID field of an issue of the project
C34_UpdateKeepsMapping ==
    /\ [](\A c \in 1..Len(calls) : calls[c].op = "jClient.UpdateIssue" => KeepsIdentity(c))
    /\ [][\A k \in 1..Len(jira) :
            /\ k <= Len(jira')
            /\ jira'[k].Key = jira[k].Key
            /\ UnknownsValue(jira'[k].Fields.Unknowns, GetFieldKey("GitHubID"))
                 = UnknownsValue(jira[k].Fields.Unknowns, GetFieldKey("GitHubID"))]_vars

\* a Live run updated the first issue of the project, which took the new
\* title and still maps to source id 1
C34_Witness ==
    /\ ~dryRun
    /\ \E c \in 1..Len(calls) : calls[c].op = "jClient.UpdateIssue" /\ calls[c].res = "ok"
    /\ Len(jira) >= 1
    /\ jira[1].Fields.Summary = "t2"
    /\ UnknownsInt(jira[1].Fields.Unknowns, GetFieldKey("GitHubID")) = [err |-> FALSE, val |-> 1]

-----------------------------------------------------------------------------
(* Properties of the Config (SpecConf)                                     *)

\* C35: the watermark a run reads from the Config is the time the SaveConfig
\* after the run before it wrote, when that SaveConfig succeeded
C35_WatermarkAdvances ==
    \A k \in 1..(Len(conf.used) - 1) :
        (k <= Len(conf.saved) /\ conf.saved[k].ok)
        => conf.used[k + 1] = ParseDate(conf.saved[k].text).t

\* the options are accepted once the default watermark is written out as
\* the since option
ValidButSince(o) ==
    validateConfig([o EXCEPT !.since = "1970-01-01T00:00:00+0000"]).err = ""

\* C36: with an empty since option and every other option valid NewConfig
\* succeeds and the watermark is 1970-01-01T00:00:00+0000; and the since
\* option is rejected only when it is not empty and does not parse
C36_DefaultWatermark ==
    conf.pc \notin {"", "new"}
    => /\ (conf.opts.since = "" /\ ValidButSince(conf.opts))
            => /\ conf.err = ""
               /\ conf.used # <<>> => conf.used[1] = ParseDate("1970-01-01T00:00:00+0000").t
       /\ conf.err = "Since date must be in ISO-8601 format"
            => (conf.opts.since # "" /\ ParseDate(conf.opts.since).err)

====
